---- MODULE Spec2Model ----
(***************************************************************************)
(* A model of the deterministic deal-modelling core of dealflow-engine:    *)
(* the debt circularity solver (circularity_solver.py), the purchase price *)
(* allocation (purchase_price.py), the pro-forma projector run_deal        *)
(* (financial_engine.py) and the sensitivity engine (sensitivity.py).      *)
(*                                                                         *)
(* Numbers.  The code computes in Python floats.  The model computes in    *)
(* integers: money in whole dollars, rates, fractions and multipliers in   *)
(* thousandths (80 is 0.08), per-share amounts in ten-thousandths of a     *)
(* dollar.  A product with a rate is (x * r) \div 1000, so results are     *)
(* rounded down to a whole unit where the code keeps a fraction.  The      *)
(* special values a float can take are kept (PosInf, NegInf, NaN), with    *)
(* Python's rules for them, because a tranche amount of float("inf")       *)
(* passes validation (amount: float, gt=0) and decides how the solver's    *)
(* loop ends.                                                              *)
(***************************************************************************)
EXTENDS Integers, Sequences, FiniteSets, TLC

VARIABLES
    pc,                 \* position of the running call
    tranches,           \* build_debt_schedule: list of DebtTranche
    args,               \* build_debt_schedule: the other arguments
    bds,                \* build_debt_schedule: balances, year, results, any_non_convergence
    sy,                 \* solve_year: the locals of the call in progress
    convergence_warning, \* DealOutput.convergence_warning of the run that built the schedule
    heap,               \* the objects reachable from a DealInput, by identity
    stack,              \* the run_deal calls in progress, outermost first, each with its locals
    calls,              \* the caller: the run_deal calls still to make
    outs,               \* the caller: what each call made so far gave back
    ppa                 \* compute_ppa: the PPAResult returned

vars == <<pc, tranches, args, bds, sy, convergence_warning, heap, stack, calls, outs, ppa>>

(***************************************************************************)
(* Python float arithmetic on integers plus inf, -inf and nan.             *)
(***************************************************************************)
PosInf == 1000000000
NegInf == -1000000000
NaN == 2000000000

IsInf(x) == x = PosInf \/ x = NegInf
IsFinite(x) == x # NaN /\ ~IsInf(x)

\* a < b and a <= b: every comparison with nan is False
FLt(a, b) == a # NaN /\ b # NaN /\ a < b
FLe(a, b) == a # NaN /\ b # NaN /\ a <= b

FNeg(a) == IF a = NaN THEN NaN ELSE -a

FAdd(a, b) ==
    IF a = NaN \/ b = NaN THEN NaN
    ELSE IF IsInf(a) THEN (IF IsInf(b) /\ b # a THEN NaN ELSE a)
    ELSE IF IsInf(b) THEN b
    ELSE a + b

FSub(a, b) == FAdd(a, FNeg(b))

\* a * num / den for integers num >= 0, den > 0 (a rate in thousandths, a term)
FMulDiv(a, num, den) ==
    IF a = NaN THEN NaN
    ELSE IF IsInf(a) THEN (IF num = 0 THEN NaN ELSE a)
    ELSE (a * num) \div den

\* Python's max(a, b) and min(a, b): the first argument unless the second beats it
FMax(a, b) == IF FLt(a, b) THEN b ELSE a
FMin(a, b) == IF FLt(b, a) THEN b ELSE a

FAbs(a) == IF a = NaN THEN NaN ELSE IF a < 0 THEN -a ELSE a

(***************************************************************************)
(* circularity_solver.py                                                   *)
(***************************************************************************)
MAX_ITERATIONS == 100
ABSOLUTE_TOLERANCE == 1
\* RELATIVE_TOLERANCE = 0.0001, kept as its inverse
RELATIVE_TOLERANCE_INV == 10000
\* DAMPING = 0.5, in thousandths
DAMPING == 500

\* dict.get(k, 0.0) and d[k] = v on a dict kept as a function
Get(d, k) == IF k \in DOMAIN d THEN d[k] ELSE 0
Put(d, k, v) == [x \in (DOMAIN d) \cup {k} |-> IF x = k THEN v ELSE d[x]]

\* list[year - 1] if year <= len(list) else 0.0
ByYear(list, year) == IF year <= Len(list) THEN list[year] ELSE 0

\* Variant: straight-line amortization stops a year short of the term
ScheduledPrincipalShort(tranche, year, current_balance) ==
    IF tranche.amortization_type = "interest_only"
    THEN (IF year = tranche.term_years THEN current_balance ELSE 0)
    ELSE IF tranche.amortization_type = "bullet"
    THEN (IF year = tranche.term_years THEN current_balance ELSE 0)
    ELSE IF year >= tranche.term_years THEN 0
    ELSE FMin(FMulDiv(tranche.amount, 1, tranche.term_years), current_balance)

\* Variant: the straight-line payment is not limited to the balance
ScheduledPrincipalUncapped(tranche, year, current_balance) ==
    IF tranche.amortization_type = "interest_only"
    THEN (IF year = tranche.term_years THEN current_balance ELSE 0)
    ELSE IF tranche.amortization_type = "bullet"
    THEN (IF year = tranche.term_years THEN current_balance ELSE 0)
    ELSE IF year > tranche.term_years THEN 0
    ELSE FMulDiv(tranche.amount, 1, tranche.term_years)

\* _scheduled_principal
ScheduledPrincipal(tranche, year, current_balance) ==
    IF tranche.amortization_type = "interest_only"
    THEN (IF year = tranche.term_years THEN current_balance ELSE 0)
    ELSE IF tranche.amortization_type = "bullet"
    THEN (IF year = tranche.term_years THEN current_balance ELSE 0)
    ELSE IF year > tranche.term_years THEN 0
    ELSE FMin(FMulDiv(tranche.amount, 1, tranche.term_years), current_balance)

\* Mandatory principal per tranche: the loop over tranches, from index i on.
\* acc holds tranche_mandatory (keyed by tranche name) and total_mandatory.
RECURSIVE MandatoryLoop(_, _, _, _, _)
MandatoryLoop(ts, tranche_balances, year, i, acc) ==
    IF i > Len(ts) THEN acc
    ELSE LET tranche == ts[i]
             bal == Get(tranche_balances, tranche.name)
         IN  IF FLe(bal, 0)
             THEN MandatoryLoop(ts, tranche_balances, year, i + 1,
                     [acc EXCEPT !.tranche_mandatory = Put(@, tranche.name, 0)])
             ELSE LET principal == ScheduledPrincipal(tranche, year, bal)
                  IN  MandatoryLoop(ts, tranche_balances, year, i + 1,
                         [tranche_mandatory |-> Put(acc.tranche_mandatory, tranche.name, principal),
                          total_mandatory |-> FAdd(acc.total_mandatory, principal)])

\* Initial interest guess: BOY balances x rate over the tranches with a balance
RECURSIVE InitialInterest(_, _, _)
InitialInterest(ts, tranche_balances, i) ==
    IF i > Len(ts) THEN 0
    ELSE LET bal == Get(tranche_balances, ts[i].name)
             rest == InitialInterest(ts, tranche_balances, i + 1)
         IN  IF FLt(0, bal) THEN FAdd(FMulDiv(bal, ts[i].interest_rate, 1000), rest) ELSE rest

\* sorted(tranches, key=interest_rate, reverse=True): stable, highest rate first
RECURSIVE SortedTranches(_)
SortedTranches(ts) ==
    IF ts = <<>> THEN <<>>
    ELSE LET m == CHOOSE i \in 1..Len(ts) :
                     /\ \A j \in 1..Len(ts) : ts[j].interest_rate <= ts[i].interest_rate
                     /\ \A j \in 1..(i - 1) : ts[j].interest_rate < ts[i].interest_rate
             rest == [k \in 1..(Len(ts) - 1) |-> IF k < m THEN ts[k] ELSE ts[k + 1]]
         IN  <<ts[m]>> \o SortedTranches(rest)

\* Variant: the operands of the subtraction exchanged
OptionalAvailableSwapped(fcf, total_mandatory) == FMax(0, FSub(total_mandatory, fcf))

\* optional_available = max(0.0, fcf - total_mandatory)
OptionalAvailable(fcf, total_mandatory) == FMax(0, FSub(fcf, total_mandatory))

\* The waterfall loop over sorted_tranches, from index i on
RECURSIVE SweepLoop(_, _, _, _, _, _)
SweepLoop(sorted, tranche_balances, tranche_mandatory, i, remaining, tranche_optional) ==
    IF i > Len(sorted) \/ FLe(remaining, 0) THEN tranche_optional
    ELSE LET tranche == sorted[i]
             boy_bal == Get(tranche_balances, tranche.name)
             after_mandatory == FSub(boy_bal, Get(tranche_mandatory, tranche.name))
         IN  IF FLe(after_mandatory, 0)
             THEN SweepLoop(sorted, tranche_balances, tranche_mandatory, i + 1,
                            remaining, tranche_optional)
             ELSE LET sweep == FMin(remaining, after_mandatory)
                  IN  SweepLoop(sorted, tranche_balances, tranche_mandatory, i + 1,
                                FSub(remaining, sweep), Put(tranche_optional, tranche.name, sweep))

\* Variant: the optional sweep is not taken off the balance
EndingBalanceNoSweep(boy_bal, mandatory, optional_sweep) == FMax(0, FSub(boy_bal, mandatory))

\* ending_bal = max(0.0, boy_bal - mandatory - optional_sweep)
EndingBalance(boy_bal, mandatory, optional_sweep) ==
    FMax(0, FSub(FSub(boy_bal, mandatory), optional_sweep))

\* Step 3: one DebtScheduleYear per tranche with a balance, in tranche order
RECURSIVE Schedules(_, _, _, _, _)
Schedules(ts, tranche_balances, tranche_mandatory, tranche_optional, i) ==
    IF i > Len(ts) THEN <<>>
    ELSE LET tranche == ts[i]
             boy_bal == Get(tranche_balances, tranche.name)
             mandatory == Get(tranche_mandatory, tranche.name)
             optional_sweep == Get(tranche_optional, tranche.name)
             ending_bal == EndingBalance(boy_bal, mandatory, optional_sweep)
             avg2 == FAdd(boy_bal, ending_bal)
             rest == Schedules(ts, tranche_balances, tranche_mandatory, tranche_optional, i + 1)
         IN  IF FLe(boy_bal, 0) THEN rest
             ELSE <<[tranche_name |-> tranche.name,
                     beginning_balance |-> boy_bal,
                     scheduled_principal |-> mandatory,
                     optional_paydown |-> optional_sweep,
                     interest_expense |-> FMulDiv(avg2, tranche.interest_rate, 2000),
                     ending_balance |-> ending_bal,
                     interest_rate |-> tranche.interest_rate]>> \o rest

\* sum(s.<field> for s in schedules)
RECURSIVE SumField(_, _)
SumField(rows, f) ==
    IF rows = <<>> THEN 0 ELSE FAdd(rows[1][f], SumField(Tail(rows), f))

\* abs_diff <= ABSOLUTE_TOLERANCE or rel_diff <= RELATIVE_TOLERANCE
WithinTolerance(total_new_interest, prev_interest) ==
    LET abs_diff == FAbs(FSub(total_new_interest, prev_interest))
        denom == FMax(FAbs(prev_interest), 1)
    IN  \/ FLe(abs_diff, ABSOLUTE_TOLERANCE)
        \/ /\ IsFinite(abs_diff)
           /\ denom # NaN
           /\ (IsInf(denom) \/ abs_diff * RELATIVE_TOLERANCE_INV <= denom)

\* prev_interest = DAMPING * prev_interest + (1.0 - DAMPING) * total_new_interest
Damped(prev_interest, total_new_interest) ==
    FAdd(FMulDiv(prev_interest, DAMPING, 1000), FMulDiv(total_new_interest, 1000 - DAMPING, 1000))

\* Variant: a loop left only by the break on convergence
LoopRunsUncapped(f) == ~f.converged

\* for iteration in range(MAX_ITERATIONS), left by the break on convergence
LoopRuns(f) == ~f.converged /\ f.iterations < MAX_ITERATIONS

\* The locals of solve_year when it reaches the loop
SolveYearFrame(ebitda, da, capex, working_capital_change, tax_rate, tranche_balances, ts, year) ==
    LET m == MandatoryLoop(ts, tranche_balances, year, 1,
                           [tranche_mandatory |-> << >>, total_mandatory |-> 0])
    IN  [ebitda |-> ebitda, da |-> da, capex |-> capex,
         working_capital_change |-> working_capital_change, tax_rate |-> tax_rate,
         tranche_balances |-> tranche_balances, year |-> year,
         tranche_mandatory |-> m.tranche_mandatory,
         total_mandatory |-> m.total_mandatory,
         prev_interest |-> InitialInterest(ts, tranche_balances, 1),
         converged |-> FALSE, iterations |-> 0,
         final_schedules |-> <<>>, final_ni |-> 0, final_fcf |-> 0]

\* One pass through the body of the loop
LoopBody(f, ts) ==
    LET ebit == FSub(f.ebitda, f.da)
        ebt == FSub(ebit, f.prev_interest)
        taxes == FMax(0, FMulDiv(ebt, f.tax_rate, 1000))
        net_income == FSub(ebt, taxes)
        fcf == FSub(FSub(FAdd(net_income, f.da), f.capex), f.working_capital_change)
        optional_available == OptionalAvailable(fcf, f.total_mandatory)
        tranche_optional ==
            SweepLoop(SortedTranches(ts), f.tranche_balances, f.tranche_mandatory, 1,
                      optional_available,
                      [n \in {ts[i].name : i \in 1..Len(ts)} |-> 0])
        schedules == Schedules(ts, f.tranche_balances, f.tranche_mandatory, tranche_optional, 1)
        total_new_interest == SumField(schedules, "interest_expense")
        ok == WithinTolerance(total_new_interest, f.prev_interest)
    IN  [f EXCEPT !.iterations = @ + 1,
                  !.final_schedules = schedules,
                  !.final_ni = net_income,
                  !.final_fcf = fcf,
                  !.converged = ok,
                  !.prev_interest = IF ok THEN @ ELSE Damped(@, total_new_interest)]

\* The SolverResult returned after the loop
LoopResult(f) ==
    LET total_mandatory_final == SumField(f.final_schedules, "scheduled_principal")
        total_optional_final == SumField(f.final_schedules, "optional_paydown")
    IN  [total_interest_expense |-> SumField(f.final_schedules, "interest_expense"),
         total_debt_paydown |-> FAdd(total_mandatory_final, total_optional_final),
         optional_cash_sweep |-> total_optional_final,
         ending_debt_balance |-> SumField(f.final_schedules, "ending_balance"),
         tranche_schedules |-> f.final_schedules,
         converged |-> f.converged,
         iterations |-> f.iterations,
         net_income |-> f.final_ni,
         free_cash_flow |-> f.final_fcf]

\* The SolverResult of the short-circuit taken when there are no tranches
NoDebtResult(ebitda, da, capex, working_capital_change, tax_rate) ==
    LET ni == FMax(0, FMulDiv(FSub(ebitda, da), 1000 - tax_rate, 1000))
    IN  [total_interest_expense |-> 0,
         total_debt_paydown |-> 0,
         optional_cash_sweep |-> 0,
         ending_debt_balance |-> 0,
         tranche_schedules |-> <<>>,
         converged |-> TRUE,
         iterations |-> 0,
         net_income |-> ni,
         free_cash_flow |-> FSub(FSub(FAdd(ni, da), capex), working_capital_change)]

\* balances = {t.name: t.amount for t in tranches}: a later tranche of the same
\* name overwrites an earlier one
RECURSIVE InitialBalances(_, _, _)
InitialBalances(ts, i, acc) ==
    IF i > Len(ts) THEN acc ELSE InitialBalances(ts, i + 1, Put(acc, ts[i].name, ts[i].amount))

\* Roll forward: balances from this year's ending balances, 0.0 for a tranche
\* without a row
RECURSIVE RowBalances(_, _, _)
RowBalances(rows, i, acc) ==
    IF i > Len(rows) THEN acc
    ELSE RowBalances(rows, i + 1, Put(acc, rows[i].tranche_name, rows[i].ending_balance))

\* Variant: the balances are not rolled forward
RollForwardSkipped(ts, result) == InitialBalances(ts, 1, << >>)

\* Variant: a tranche that was paid off starts the next year at its amount
RollForwardReset(ts, result) ==
    LET fromRows == RowBalances(result.tranche_schedules, 1, << >>)
    IN  [n \in {ts[i].name : i \in 1..Len(ts)} |->
            IF Get(fromRows, n) = 0 THEN Get(InitialBalances(ts, 1, << >>), n)
            ELSE Get(fromRows, n)]

RollForward(ts, result) ==
    LET fromRows == RowBalances(result.tranche_schedules, 1, << >>)
    IN  [n \in {ts[i].name : i \in 1..Len(ts)} |-> Get(fromRows, n)]

\* Variant: the flag follows the last year solved
AnyNonConvergenceLast(any_non_convergence, result) == ~result.converged

\* if not result.converged: any_non_convergence = True
AnyNonConvergence(any_non_convergence, result) == any_non_convergence \/ ~result.converged

(***************************************************************************)
(* The debt schedule of one run, step by step: build_debt_schedule walks   *)
(* the years, solve_year iterates, and the run reports the flag.           *)
(***************************************************************************)
MaxTranches == 2
MaxYears == 3

Tranche(n, a, r, t, k) ==
    [name |-> n, amount |-> a, interest_rate |-> r, term_years |-> t, amortization_type |-> k]

\* Validated tranches (amount > 0, 0 < rate <= 1, 1 <= term <= 30); names may repeat
TrancheChoices ==
    { Tranche("A", 1000, 80, 2, "straight_line"),
      Tranche("B", 600, 120, 3, "bullet"),
      Tranche("A", 400, 100, 2, "interest_only"),
      Tranche("B", 900, 80, 4, "straight_line") }

TrancheLists(S) == UNION { [1..n -> S] : n \in 0..MaxTranches }

EbitdaChoices == {-100, 200, 900}

\* Lists with a tranche whose amount is float("inf")
NonFiniteTrancheLists ==
    { << >>,
      <<Tranche("A", 1000, 80, 2, "straight_line")>>,
      <<Tranche("A", PosInf, 80, 2, "straight_line")>>,
      <<Tranche("A", 1000, 80, 2, "straight_line"), Tranche("B", PosInf, 120, 2, "bullet")>>,
      <<Tranche("B", PosInf, 100, 3, "interest_only"), Tranche("A", 400, 120, 2, "bullet")>> }

IdleFrame ==
    [ebitda |-> 0, da |-> 0, capex |-> 0, working_capital_change |-> 0, tax_rate |-> 0,
     tranche_balances |-> << >>, year |-> 0, tranche_mandatory |-> << >>,
     total_mandatory |-> 0, prev_interest |-> 0, converged |-> FALSE, iterations |-> 0,
     final_schedules |-> <<>>, final_ni |-> 0, final_fcf |-> 0]

\* No deal is being run, no allocation has been computed
DealIdle == heap = << >> /\ stack = <<>> /\ calls = <<>> /\ outs = <<>>
NoPpa == [goodwill |-> 0]

\* build_debt_schedule entered: results = [], any_non_convergence = False,
\* wc_change_by_year = [0.0] * projection_years, balances from the amounts
SchedStart(ts, a) ==
    /\ pc = "year"
    /\ tranches = ts
    /\ args = a
    /\ bds = [balances |-> InitialBalances(ts, 1, << >>), year |-> 1, results |-> <<>>,
              any_non_convergence |-> FALSE, result |-> NoDebtResult(0, 0, 0, 0, 0)]
    /\ sy = IdleFrame
    /\ convergence_warning = FALSE
    /\ DealIdle
    /\ ppa = NoPpa

SchedInit ==
    \E ts \in TrancheLists(TrancheChoices), n \in 1..MaxYears, tax \in {0, 250} :
    \E eb \in [1..n -> EbitdaChoices] :
        SchedStart(ts, [projection_years |-> n, ebitda_by_year |-> eb,
                        da_by_year |-> [y \in 1..n |-> 50],
                        capex_by_year |-> [y \in 1..n |-> 20],
                        wc_change_by_year |-> [y \in 1..n |-> 0],
                        tax_rate |-> tax])

NonFiniteInit ==
    \E ts \in NonFiniteTrancheLists, n \in 1..3, e \in {200, 900} :
        SchedStart(ts, [projection_years |-> n, ebitda_by_year |-> [y \in 1..n |-> e],
                        da_by_year |-> [y \in 1..n |-> 50],
                        capex_by_year |-> [y \in 1..n |-> 0],
                        wc_change_by_year |-> [y \in 1..n |-> 0],
                        tax_rate |-> 250])

\* solve_year called for the year, with tranches: the locals up to the loop
SolveYearEnter ==
    /\ pc = "year"
    /\ bds.year <= args.projection_years
    /\ tranches # <<>>
    /\ sy' = SolveYearFrame(ByYear(args.ebitda_by_year, bds.year),
                            ByYear(args.da_by_year, bds.year),
                            ByYear(args.capex_by_year, bds.year),
                            ByYear(args.wc_change_by_year, bds.year),
                            args.tax_rate, bds.balances, tranches, bds.year)
    /\ pc' = "loop"
    /\ UNCHANGED <<tranches, args, bds, convergence_warning>>
    /\ UNCHANGED <<heap, stack, calls, outs, ppa>>

\* solve_year called for the year, without tranches: the short-circuit return
SolveYearNoDebt ==
    /\ pc = "year"
    /\ bds.year <= args.projection_years
    /\ tranches = <<>>
    /\ bds' = [bds EXCEPT !.result = NoDebtResult(ByYear(args.ebitda_by_year, bds.year),
                                                  ByYear(args.da_by_year, bds.year),
                                                  ByYear(args.capex_by_year, bds.year),
                                                  ByYear(args.wc_change_by_year, bds.year),
                                                  args.tax_rate)]
    /\ pc' = "returned"
    /\ UNCHANGED <<tranches, args, sy, convergence_warning>>
    /\ UNCHANGED <<heap, stack, calls, outs, ppa>>

\* One iteration of the fixed-point loop
Iterate ==
    /\ pc = "loop"
    /\ LoopRuns(sy)
    /\ sy' = LoopBody(sy, tranches)
    /\ UNCHANGED <<pc, tranches, args, bds, convergence_warning>>
    /\ UNCHANGED <<heap, stack, calls, outs, ppa>>

\* The loop is over: solve_year returns its SolverResult
SolveYearReturn ==
    /\ pc = "loop"
    /\ ~LoopRuns(sy)
    /\ bds' = [bds EXCEPT !.result = LoopResult(sy)]
    /\ pc' = "returned"
    /\ UNCHANGED <<tranches, args, sy, convergence_warning>>
    /\ UNCHANGED <<heap, stack, calls, outs, ppa>>

\* build_debt_schedule takes the result and rolls the balances forward
YearDone ==
    /\ pc = "returned"
    /\ bds' = [bds EXCEPT !.any_non_convergence = AnyNonConvergence(@, bds.result),
                          !.balances = RollForward(tranches, bds.result),
                          !.results = Append(@, bds.result),
                          !.year = @ + 1]
    /\ pc' = "year"
    /\ UNCHANGED <<tranches, args, sy, convergence_warning>>
    /\ UNCHANGED <<heap, stack, calls, outs, ppa>>

\* build_debt_schedule returns (results, any_non_convergence) and run_deal puts
\* the flag on its DealOutput
ScheduleReturn ==
    /\ pc = "year"
    /\ bds.year > args.projection_years
    /\ convergence_warning' = bds.any_non_convergence
    /\ pc' = "done"
    /\ UNCHANGED <<tranches, args, bds, sy>>
    /\ UNCHANGED <<heap, stack, calls, outs, ppa>>

SchedNext ==
    \/ SolveYearEnter
    \/ SolveYearNoDebt
    \/ Iterate
    \/ SolveYearReturn
    \/ YearDone
    \/ ScheduleReturn

SpecSched == SchedInit /\ [][SchedNext]_vars

SpecNonFinite == NonFiniteInit /\ [][SchedNext]_vars

\* Schedules of a single tranche, of each amortization type, with the same
\* EBITDA every year: negative (nothing to sweep), modest and ample
SingleTranches ==
    { Tranche("Term Loan", amount, 80, term_years, amortization_type) :
        amount \in {2500, 70000}, term_years \in 1..MaxYears,
        amortization_type \in {"straight_line", "bullet", "interest_only"} }

SingleInit ==
    \E tranche \in SingleTranches, n \in 1..MaxYears, e \in {-100, 6000, 40000} :
        SchedStart(<<tranche>>, [projection_years |-> n, ebitda_by_year |-> [y \in 1..n |-> e],
                                 da_by_year |-> [y \in 1..n |-> 50],
                                 capex_by_year |-> [y \in 1..n |-> 20],
                                 wc_change_by_year |-> [y \in 1..n |-> 0],
                                 tax_rate |-> 250])

SingleNext ==
    \/ SolveYearEnter
    \/ Iterate
    \/ SolveYearReturn
    \/ YearDone
    \/ ScheduleReturn

SpecSingle == SingleInit /\ [][SingleNext]_vars

(***************************************************************************)
(* Properties of the debt schedule                                         *)
(***************************************************************************)
Rows(t) == bds.results[t].tranche_schedules

\* C1: in a multi-year debt schedule, every row of a year t >= 2 has a row of the
\* same tranche in year t-1, and its beginning_balance is that row's ending_balance.
C1_BeginningIsPriorEnding ==
    \A t \in 2..Len(bds.results) : \A i \in 1..Len(Rows(t)) :
        /\ \E j \in 1..Len(Rows(t - 1)) : Rows(t - 1)[j].tranche_name = Rows(t)[i].tranche_name
        /\ \A j \in 1..Len(Rows(t - 1)) :
              Rows(t - 1)[j].tranche_name = Rows(t)[i].tranche_name
              => Rows(t)[i].beginning_balance = Rows(t - 1)[j].ending_balance

\* A second-year row of a tranche that was paid down in the first year
C1_Witness ==
    /\ Len(bds.results) >= 2
    /\ \E i \in 1..Len(Rows(2)), j \in 1..Len(Rows(1)) :
          /\ Rows(1)[j].tranche_name = Rows(2)[i].tranche_name
          /\ Rows(1)[j].ending_balance < Rows(1)[j].beginning_balance
          /\ Rows(2)[i].beginning_balance = Rows(1)[j].ending_balance

\* C2: solve_year's loop never runs more than MAX_ITERATIONS times and its one
\* division never divides by zero; when the loop is over without convergence it
\* has run exactly MAX_ITERATIONS times, and the result returned carries the
\* schedule of the last iteration with converged = false.
C2_BoundedAndReturns ==
    /\ sy.iterations <= MAX_ITERATIONS
    /\ pc = "loop" => FMax(FAbs(sy.prev_interest), 1) # 0
    /\ (pc = "loop" /\ ~LoopRuns(sy)) => (sy.converged \/ sy.iterations = MAX_ITERATIONS)
    /\ (pc = "returned" /\ tranches # <<>>) =>
          /\ bds.result.iterations = sy.iterations
          /\ bds.result.iterations >= 1
          /\ bds.result.converged = sy.converged
          /\ bds.result.tranche_schedules = sy.final_schedules
          /\ ~bds.result.converged => bds.result.iterations = MAX_ITERATIONS

\* solve_year has returned a result that did not converge
C2_Witness ==
    /\ pc = "returned"
    /\ tranches # <<>>
    /\ ~bds.result.converged
    /\ bds.result.iterations = MAX_ITERATIONS
    /\ bds.result.tranche_schedules # <<>>

\* C3: when the run is over, convergence_warning is true exactly when some
\* projection year's result did not converge; without debt it is false.
C3_WarningIffSomeYearFailed ==
    pc = "done" =>
        /\ convergence_warning <=> \E t \in 1..Len(bds.results) : ~bds.results[t].converged
        /\ tranches = <<>> => ~convergence_warning

\* A finished run whose solver failed in one year and converged in the last
C3_Witness ==
    /\ pc = "done"
    /\ convergence_warning
    /\ Len(bds.results) >= 2
    /\ bds.results[Len(bds.results)].converged

\* C8: in every solved year, a free cash flow <= 0 gives an optional sweep of
\* exactly 0, and a positive free cash flow above the total mandatory principal
\* gives an optional sweep >= 0.
C8_SweepSign ==
    /\ \A t \in 1..Len(bds.results) :
          /\ FLe(bds.results[t].free_cash_flow, 0) => bds.results[t].optional_cash_sweep = 0
          /\ \A i \in 1..Len(Rows(t)) :
                FLe(bds.results[t].free_cash_flow, 0) => Rows(t)[i].optional_paydown = 0
    /\ (pc = "returned" /\ tranches # <<>>) =>
          /\ FLe(bds.result.free_cash_flow, 0) => bds.result.optional_cash_sweep = 0
          /\ (FLt(0, bds.result.free_cash_flow)
                /\ FLt(sy.total_mandatory, bds.result.free_cash_flow))
             => FLe(0, bds.result.optional_cash_sweep)

\* One schedule with a year of debt outstanding and no free cash flow, and a
\* year whose free cash flow above the mandatory principal was swept
C8_Witness ==
    /\ \E t \in 1..Len(bds.results) :
          /\ FLe(bds.results[t].free_cash_flow, 0)
          /\ Rows(t) # <<>>
          /\ \E i \in 1..Len(Rows(t)) : Rows(t)[i].scheduled_principal > 0
    /\ pc = "returned"
    /\ tranches # <<>>
    /\ FLt(sy.total_mandatory, bds.result.free_cash_flow)
    /\ bds.result.optional_cash_sweep > 0

AllRows ==
    UNION { { Rows(t)[i] : i \in 1..Len(Rows(t)) } : t \in 1..Len(bds.results) }
        \cup { sy.final_schedules[i] : i \in 1..Len(sy.final_schedules) }

\* C9: every schedule row, of every iteration and of every year returned, has
\* ending_balance = max(0, beginning_balance - scheduled_principal - optional_paydown).
C9_EndingBalanceIdentity ==
    \A r \in AllRows :
        r.ending_balance =
            FMax(0, FSub(FSub(r.beginning_balance, r.scheduled_principal), r.optional_paydown))

\* A returned row with scheduled and optional paydown that leaves a balance,
\* and a returned row whose paydown takes the balance to zero
C9_Witness ==
    /\ \E t \in 1..Len(bds.results) : \E i \in 1..Len(Rows(t)) :
          /\ Rows(t)[i].scheduled_principal > 0
          /\ Rows(t)[i].optional_paydown > 0
          /\ Rows(t)[i].ending_balance > 0
    /\ \E t \in 1..Len(bds.results) : \E i \in 1..Len(Rows(t)) :
          /\ Rows(t)[i].beginning_balance > 0
          /\ Rows(t)[i].optional_paydown > 0
          /\ Rows(t)[i].ending_balance = 0

\* No optional sweep in the years 1..t of the schedule
NoSweepThrough(t) == \A y \in 1..t : bds.results[y].optional_cash_sweep = 0

\* C13: a single straight-line tranche projected through its term with no
\* optional sweep has, at the end of year = term, a balance within $1,000 of zero.
C13_StraightLinePayoff ==
    (/\ Len(tranches) = 1
     /\ tranches[1].amortization_type = "straight_line"
     /\ Len(bds.results) >= tranches[1].term_years
     /\ NoSweepThrough(tranches[1].term_years))
        => /\ bds.results[tranches[1].term_years].ending_debt_balance < 1000
           /\ bds.results[tranches[1].term_years].ending_debt_balance > -1000

\* A 70,000 loan over three years, amortized without any sweep, whose three
\* payments leave less than a payment and less than $1,000
C13_Witness ==
    /\ Len(tranches) = 1
    /\ tranches[1].amortization_type = "straight_line"
    /\ tranches[1].amount = 70000
    /\ tranches[1].term_years = 3
    /\ Len(bds.results) >= 3
    /\ NoSweepThrough(3)
    /\ Rows(3)[1].scheduled_principal > 1000
    /\ bds.results[3].ending_debt_balance < 1000

\* The tranches that have a row in year y, in order: row i of the year belongs
\* to the i-th of them (a row is written for every tranche whose name has a
\* positive beginning balance)
RowTranches(y) ==
    SelectSeq(tranches, LAMBDA t : \E i \in 1..Len(Rows(y)) : Rows(y)[i].tranche_name = t.name)

\* C14: a row of a bullet or interest-only tranche has scheduled principal 0 in
\* every year before the term year, and in the term year a scheduled principal
\* equal to its beginning balance and an ending balance of 0.
C14_BalloonAtTerm ==
    \A y \in 1..Len(bds.results) : \A i \in 1..Len(Rows(y)) :
        LET t == RowTranches(y)[i]
        IN  t.amortization_type \in {"bullet", "interest_only"} =>
                /\ y < t.term_years => Rows(y)[i].scheduled_principal = 0
                /\ y = t.term_years =>
                      /\ Rows(y)[i].scheduled_principal = Rows(y)[i].beginning_balance
                      /\ Rows(y)[i].ending_balance = 0

\* A bullet or interest-only loan that paid nothing scheduled before its term
\* year and its whole remaining balance in it
C14_Witness ==
    /\ Len(tranches) = 1
    /\ tranches[1].amortization_type \in {"bullet", "interest_only"}
    /\ tranches[1].term_years = 2
    /\ Len(bds.results) >= 2
    /\ Len(Rows(2)) = 1
    /\ Rows(1)[1].scheduled_principal = 0
    /\ Rows(2)[1].scheduled_principal = Rows(2)[1].beginning_balance
    /\ Rows(2)[1].beginning_balance > 0
    /\ Rows(2)[1].ending_balance = 0

\* Row i of year y is swept before row j: its rate is higher, or the rates are
\* equal and it comes first among the tranches
SweptBefore(y, i, j) ==
    \/ Rows(y)[i].interest_rate > Rows(y)[j].interest_rate
    \/ (Rows(y)[i].interest_rate = Rows(y)[j].interest_rate /\ i < j)

\* What a row could still take after its scheduled principal
AfterMandatory(row) ==
    IF row.beginning_balance > row.scheduled_principal
    THEN row.beginning_balance - row.scheduled_principal ELSE 0

\* No two tranches share a name
NamesDiffer == \A i, j \in 1..Len(tranches) : tranches[i].name = tranches[j].name => i = j

\* The waterfall over the rows of the years written so far
Waterfall ==
    \A y \in 1..Len(bds.results) : \A i, j \in 1..Len(Rows(y)) :
        /\ Rows(y)[i].optional_paydown >= 0
        /\ Rows(y)[i].optional_paydown <= AfterMandatory(Rows(y)[i])
        /\ (SweptBefore(y, i, j) /\ Rows(y)[j].optional_paydown > 0) =>
               Rows(y)[i].optional_paydown = AfterMandatory(Rows(y)[i])
        /\ (Rows(y)[i].interest_rate > Rows(y)[j].interest_rate
                /\ Rows(y)[j].optional_paydown > 0) => Rows(y)[i].ending_balance = 0

\* C20: in every year the optional sweep goes to the tranches in descending
\* order of interest rate, each taking min(remaining sweep, beginning balance -
\* mandatory principal): a tranche takes nothing more than that, takes all of
\* it if a tranche after it in the order takes anything, and has a positive
\* optional paydown only if every tranche of a strictly higher rate ends the
\* year with a zero balance.
C20_WaterfallByRate == Waterfall

\* Two tranches of different rates and a year in which the one of the higher
\* rate is swept to zero and the other takes part of the rest
C20_Witness ==
    \E y \in 1..Len(bds.results) : \E i, j \in 1..Len(Rows(y)) :
        /\ Rows(y)[i].interest_rate > Rows(y)[j].interest_rate
        /\ Rows(y)[i].optional_paydown > 0
        /\ Rows(y)[i].ending_balance = 0
        /\ Rows(y)[j].optional_paydown > 0
        /\ Rows(y)[j].ending_balance > 0

\* With distinct tranche names the rows follow the waterfall
WaterfallWhenNamesDiffer == NamesDiffer => Waterfall

\* A row's payments are non-negative and together no more than what is owed
PaymentsWithinBalance(r) ==
    /\ r.scheduled_principal >= 0
    /\ r.optional_paydown >= 0
    /\ r.scheduled_principal + r.optional_paydown <= r.beginning_balance

\* C25: for every tranche in every solved year, scheduled principal and optional
\* paydown are each >= 0 and their sum is no more than the beginning balance, so
\* the clamp of the ending balance at 0 never hides an overpayment.
C25_PaymentsWithinBalance ==
    \A r \in AllRows : PaymentsWithinBalance(r)

\* A returned row of a year in which the tranche was paid off by scheduled
\* principal and sweep together
C25_Witness ==
    \E t \in 1..Len(bds.results) : \E i \in 1..Len(Rows(t)) :
        /\ Rows(t)[i].scheduled_principal > 0
        /\ Rows(t)[i].optional_paydown > 0
        /\ Rows(t)[i].scheduled_principal + Rows(t)[i].optional_paydown
               = Rows(t)[i].beginning_balance

\* The same when no two tranches share a name
PaymentsWithinBalanceWhenNamesDiffer ==
    NamesDiffer => \A r \in AllRows : PaymentsWithinBalance(r)

\* C26: across the years of a debt schedule a tranche's balance never
\* increases, and a tranche whose ending balance has reached 0 has no row in
\* any later year, so that it adds no interest, scheduled principal or
\* optional paydown to the totals of those years.
C26_BalanceNeverIncreases ==
    \A t \in 1..Len(bds.results) :
        /\ \A i \in 1..Len(Rows(t)) :
              /\ Rows(t)[i].ending_balance <= Rows(t)[i].beginning_balance
              /\ t >= 2 =>
                     \E j \in 1..Len(Rows(t - 1)) :
                         /\ Rows(t - 1)[j].tranche_name = Rows(t)[i].tranche_name
                         /\ Rows(t - 1)[j].ending_balance = Rows(t)[i].beginning_balance
                         /\ Rows(t - 1)[j].ending_balance > 0
              /\ Rows(t)[i].ending_balance = 0 =>
                     \A u \in (t + 1)..Len(bds.results) : \A j \in 1..Len(Rows(u)) :
                         Rows(u)[j].tranche_name # Rows(t)[i].tranche_name
        /\ bds.results[t].total_interest_expense = SumField(Rows(t), "interest_expense")
        /\ bds.results[t].total_debt_paydown
              = SumField(Rows(t), "scheduled_principal") + SumField(Rows(t), "optional_paydown")
        /\ bds.results[t].optional_cash_sweep = SumField(Rows(t), "optional_paydown")

\* A tranche paid off in the first year, and a second year in which another
\* tranche still has a row
C26_Witness ==
    /\ Len(bds.results) >= 2
    /\ \E i \in 1..Len(Rows(1)) :
          /\ Rows(1)[i].ending_balance = 0
          /\ Rows(2) # <<>>
          /\ \A j \in 1..Len(Rows(2)) : Rows(2)[j].tranche_name # Rows(1)[i].tranche_name

\* EBT of year t at zero interest
EbtNoInterest(t) == args.ebitda_by_year[t] - args.da_by_year[t]

\* What the loop's formulas give for year t at zero interest, times 1000:
\* net_income = ebt - max(0.0, ebt * tax_rate)
NetIncomeNoInterest1000(t) ==
    EbtNoInterest(t) * 1000
        - (IF EbtNoInterest(t) * args.tax_rate > 0 THEN EbtNoInterest(t) * args.tax_rate ELSE 0)

\* C27: with no debt tranches the result of a year is the one the iterative
\* formulas give at zero interest, whatever the operating inputs, EBITDA < D&A
\* included: interest 0, paydown 0, converged, net income = EBT - max(0, EBT x
\* tax_rate) (to the dollar) and FCF = net income + D&A - capex - change in
\* working capital.
C27_ShortCircuitMatchesFormulas ==
    tranches = <<>> =>
        \A t \in 1..Len(bds.results) :
            LET r == bds.results[t]
            IN  /\ r.total_interest_expense = 0
                /\ r.total_debt_paydown = 0
                /\ r.converged
                /\ r.net_income * 1000 <= NetIncomeNoInterest1000(t)
                /\ NetIncomeNoInterest1000(t) < (r.net_income + 1) * 1000
                /\ r.free_cash_flow = r.net_income + args.da_by_year[t] - args.capex_by_year[t]
                                         - args.wc_change_by_year[t]

\* A year solved with no tranches and EBITDA below D&A
C27_Witness ==
    /\ tranches = <<>>
    /\ \E t \in 1..Len(bds.results) :
          /\ args.ebitda_by_year[t] < args.da_by_year[t]
          /\ bds.results[t].iterations = 0

\* The short-circuit agrees with the formulas in the years whose EBITDA is at
\* least D&A
ShortCircuitMatchesWhenEbtNotNegative ==
    tranches = <<>> =>
        \A t \in 1..Len(bds.results) :
            EbtNoInterest(t) >= 0 =>
                /\ bds.results[t].net_income * 1000 <= NetIncomeNoInterest1000(t)
                /\ NetIncomeNoInterest1000(t) < (bds.results[t].net_income + 1) * 1000
                /\ bds.results[t].free_cash_flow
                      = bds.results[t].net_income + args.da_by_year[t] - args.capex_by_year[t]
                          - args.wc_change_by_year[t]

\* Year 1 has a row for each tranche, in the order of the list, that begins at
\* the tranche's own amount
YearOneBeginsAtAmounts ==
    Len(bds.results) >= 1 =>
        /\ Len(Rows(1)) = Len(tranches)
        /\ \A i \in 1..Len(Rows(1)) :
              /\ Rows(1)[i].tranche_name = tranches[i].name
              /\ Rows(1)[i].beginning_balance = tranches[i].amount
        /\ SumField(Rows(1), "beginning_balance") = SumField(tranches, "amount")

\* C30: for every validated list of tranches, names unique or not, each
\* tranche's year-1 beginning balance is its own amount, tracked apart from the
\* other tranches, and the year-1 beginning debt is the sum of the amounts.
C30_YearOneBeginsAtAmounts == YearOneBeginsAtAmounts

\* The first year of a list of two tranches of different amounts is solved
C30_Witness ==
    /\ Len(bds.results) >= 1
    /\ Len(tranches) = 2
    /\ tranches[1].amount # tranches[2].amount
    /\ Len(Rows(1)) = 2

\* The same when no two tranches share a name
YearOneBeginsAtAmountsWhenNamesDiffer == NamesDiffer => YearOneBeginsAtAmounts

(***************************************************************************)
(* models.py: a DealInput and the objects it refers to.  Objects live in   *)
(* heap under an identity, so that a copy that shares an object with the   *)
(* original shows.  The acquirer and the PPA assumptions are never         *)
(* assigned to and are kept by value.                                      *)
(***************************************************************************)
Range(f) == { f[k] : k \in DOMAIN f }

\* The heap of one validated DealInput: 1 is the deal, 2 its target, 3 its
\* structure, 4 its synergies, then the tranches and the synergy items
NewDeal(acquirer, target, structure, ts, cost, rev, ppa_in, projection_years) ==
    LET T == Len(ts)
        C == Len(cost)
    IN  [i \in 1..(4 + T + C + Len(rev)) |->
            IF i = 1 THEN [acquirer |-> acquirer, target |-> 2, structure |-> 3,
                           synergies |-> 4, ppa |-> ppa_in,
                           projection_years |-> projection_years]
            ELSE IF i = 2 THEN target
            ELSE IF i = 3 THEN [cash_percentage |-> structure.cash_percentage,
                                stock_percentage |-> structure.stock_percentage,
                                debt_percentage |-> structure.debt_percentage,
                                debt_tranches |-> [k \in 1..T |-> 4 + k],
                                transaction_fees_pct |-> structure.transaction_fees_pct,
                                advisory_fees |-> structure.advisory_fees]
            ELSE IF i = 4 THEN [cost_synergies |-> [k \in 1..C |-> 4 + T + k],
                                revenue_synergies |-> [k \in 1..Len(rev) |-> 4 + T + C + k]]
            ELSE IF i <= 4 + T THEN ts[i - 4]
            ELSE IF i <= 4 + T + C THEN cost[i - 4 - T]
            ELSE rev[i - 4 - T - C]]

\* deal.target, deal.structure, deal.synergies and the lists, read through the heap
TargetOf(h, d) == h[h[d].target]
StructureOf(h, d) == h[h[d].structure]
DebtTranches(h, d) == [k \in DOMAIN StructureOf(h, d).debt_tranches |-> h[StructureOf(h, d).debt_tranches[k]]]
CostSynergies(h, d) == [k \in DOMAIN h[h[d].synergies].cost_synergies |-> h[h[h[d].synergies].cost_synergies[k]]]
RevenueSynergies(h, d) == [k \in DOMAIN h[h[d].synergies].revenue_synergies |-> h[h[h[d].synergies].revenue_synergies[k]]]

\* The values of a deal: what two deals are compared by
DealValue(h, d) ==
    [acquirer |-> h[d].acquirer, target |-> TargetOf(h, d),
     structure |-> [StructureOf(h, d) EXCEPT !.debt_tranches = DebtTranches(h, d)],
     cost_synergies |-> CostSynergies(h, d), revenue_synergies |-> RevenueSynergies(h, d),
     ppa |-> h[d].ppa, projection_years |-> h[d].projection_years]

\* The objects a deal refers to
Reach(h, d) ==
    {d, h[d].target, h[d].structure, h[d].synergies}
        \cup Range(StructureOf(h, d).debt_tranches)
        \cup Range(h[h[d].synergies].cost_synergies)
        \cup Range(h[h[d].synergies].revenue_synergies)

\* A new object gets the identity after the highest in use
NextId(h) == IF DOMAIN h = {} THEN 1 ELSE 1 + CHOOSE m \in DOMAIN h : \A i \in DOMAIN h : i <= m

\* Variant: model_copy() without deep=True, a new DealInput over the same objects
ShallowCopyDeal(h, d) ==
    [heap |-> [i \in DOMAIN h \cup {NextId(h)} |-> IF i \in DOMAIN h THEN h[i] ELSE h[d]],
     deal |-> NextId(h)]

\* _deep_copy_deal: deal.model_copy(deep=True), every object reached is copied
DeepCopyDeal(h, d) ==
    LET ids == Reach(h, d)
        new(x) == NextId(h) - 1 + Cardinality({y \in ids : y <= x})
        old(i) == CHOOSE x \in ids : new(x) = i
        copy(x) ==
            IF x = d
            THEN [h[x] EXCEPT !.target = new(@), !.structure = new(@), !.synergies = new(@)]
            ELSE IF x = h[d].structure
            THEN [h[x] EXCEPT !.debt_tranches = [k \in DOMAIN @ |-> new(@[k])]]
            ELSE IF x = h[d].synergies
            THEN [h[x] EXCEPT !.cost_synergies = [k \in DOMAIN @ |-> new(@[k])],
                              !.revenue_synergies = [k \in DOMAIN @ |-> new(@[k])]]
            ELSE h[x]
    IN  [heap |-> [i \in DOMAIN h \cup {new(x) : x \in ids} |->
                      IF i \in DOMAIN h THEN h[i] ELSE copy(old(i))],
         deal |-> new(d)]

(***************************************************************************)
(* purchase_price.py                                                       *)
(***************************************************************************)
\* goodwill = max(0.0, target.acquisition_price - fvna)
Goodwill(acquisition_price, fvna) == FMax(0, FSub(acquisition_price, fvna))

compute_ppa(h, d) ==
    LET target == TargetOf(h, d)
        p == h[d].ppa
        tax_rate == h[d].acquirer.tax_rate
        net_assets_book == target.cash_on_hand + target.working_capital - target.total_debt
        taxable_temporary_difference == p.asset_writeup + p.identifiable_intangibles
        dtl == (taxable_temporary_difference * tax_rate) \div 1000
        fvna == net_assets_book + p.asset_writeup + p.identifiable_intangibles - dtl
        incremental_da ==
            IF p.asset_writeup_useful_life > 0 /\ p.asset_writeup > 0
            THEN p.asset_writeup \div p.asset_writeup_useful_life ELSE 0
        incremental_amort ==
            IF p.intangible_useful_life > 0 /\ p.identifiable_intangibles > 0
            THEN p.identifiable_intangibles \div p.intangible_useful_life ELSE 0
    IN  [purchase_price |-> target.acquisition_price,
         net_assets_book_value |-> net_assets_book,
         asset_writeup |-> p.asset_writeup,
         identifiable_intangibles |-> p.identifiable_intangibles,
         deferred_tax_liability |-> dtl,
         goodwill |-> Goodwill(target.acquisition_price, fvna),
         incremental_da_annual |-> incremental_da,
         incremental_amort_annual |-> incremental_amort,
         total_incremental_annual |-> incremental_da + incremental_amort]

\* get_transaction_costs
get_transaction_costs(h, d) ==
    (TargetOf(h, d).acquisition_price * StructureOf(h, d).transaction_fees_pct) \div 1000
        + StructureOf(h, d).advisory_fees

(***************************************************************************)
(* circularity_solver.py, as called by run_deal: the same loop, run to its *)
(* end within one step of the caller.                                      *)
(***************************************************************************)
RECURSIVE RunLoop(_, _)
RunLoop(f, ts) == IF LoopRuns(f) THEN RunLoop(LoopBody(f, ts), ts) ELSE f

solve_year(ebitda, da, capex, working_capital_change, tax_rate, tranche_balances, ts, year) ==
    IF ts = <<>>
    THEN NoDebtResult(ebitda, da, capex, working_capital_change, tax_rate)
    ELSE LoopResult(RunLoop(SolveYearFrame(ebitda, da, capex, working_capital_change,
                                           tax_rate, tranche_balances, ts, year), ts))

\* The loop over the years, from year on; b holds balances, results and the flag
RECURSIVE YearLoop(_, _, _, _)
YearLoop(ts, a, year, b) ==
    IF year > a.projection_years THEN b
    ELSE LET result == solve_year(ByYear(a.ebitda_by_year, year), ByYear(a.da_by_year, year),
                                  ByYear(a.capex_by_year, year), 0,
                                  a.tax_rate, b.balances, ts, year)
         IN  YearLoop(ts, a, year + 1,
                      [balances |-> RollForward(ts, result),
                       results |-> Append(b.results, result),
                       any_non_convergence |-> AnyNonConvergence(b.any_non_convergence, result)])

\* build_debt_schedule without wc_change_by_year: (results, any_non_convergence)
build_debt_schedule(ts, a) ==
    YearLoop(ts, a, 1, [balances |-> InitialBalances(ts, 1, << >>), results |-> <<>>,
                        any_non_convergence |-> FALSE])

(***************************************************************************)
(* financial_engine.py: run_deal up to the sensitivity matrices            *)
(***************************************************************************)
\* x * (1 + rate) ** yr
RECURSIVE Grow(_, _, _)
Grow(x, rate, yr) == IF yr = 0 THEN x ELSE Grow((x * (1000 + rate)) \div 1000, rate, yr - 1)

RECURSIVE _synergy_year_value(_, _)
_synergy_year_value(items, year) ==
    IF items = <<>> THEN 0
    ELSE LET item == items[1]
             realized ==
                 IF item.phase_in_years <= 0 THEN item.annual_amount
                 ELSE IF year >= item.phase_in_years THEN item.annual_amount
                 ELSE (item.annual_amount * year) \div item.phase_in_years
         IN  realized + _synergy_year_value(Tail(items), year)

\* defaults.get_interest_rate: 0.08 below 250M, else 0.065
get_interest_rate(deal_size) == IF deal_size < 250000000 THEN 80 ELSE 65

_build_synthetic_tranches(h, d) ==
    LET acq_debt == (TargetOf(h, d).acquisition_price * StructureOf(h, d).debt_percentage) \div 1000
    IN  IF acq_debt <= 0 THEN <<>>
        ELSE <<Tranche("Acquisition Term Loan", acq_debt,
                       get_interest_rate(TargetOf(h, d).acquisition_price), 7, "straight_line")>>

\* ebitda / revenue if revenue > 0, else the fallback; and the gross margin from it
EbitdaMargin(profile, fallback) ==
    IF profile.revenue > 0 THEN (profile.ebitda * 1000) \div profile.revenue ELSE fallback
GrossMarginBase(ebitda_margin) ==
    LET capped == IF 950 < ebitda_margin + 200 THEN 950 ELSE ebitda_margin + 200
    IN  IF 100 < capped THEN capped ELSE 100

\* x / shares per share, in ten-thousandths of a dollar; 0.0 without shares
PerShare(x, shares) == IF shares > 0 THEN (x * 10000) \div shares ELSE 0

\* What run_deal computes before the projection loops
Setup(h, d) ==
    LET acq == h[d].acquirer
        tgt == TargetOf(h, d)
        st == StructureOf(h, d)
        ts == IF DebtTranches(h, d) # <<>> THEN DebtTranches(h, d)
              ELSE _build_synthetic_tranches(h, d)
        new_shares_issued ==
            IF st.stock_percentage > 0 /\ acq.share_price > 0
            THEN ((tgt.acquisition_price * st.stock_percentage) \div 1000) \div acq.share_price
            ELSE 0
    IN  [ppa |-> compute_ppa(h, d),
         transaction_costs |-> get_transaction_costs(h, d),
         tranches |-> ts,
         acq_debt_total |-> SumField(ts, "amount"),
         n_years |-> h[d].projection_years,
         acq_ebitda_margin |-> EbitdaMargin(acq, 150),
         tgt_ebitda_margin |-> EbitdaMargin(tgt, 120),
         acq_standalone_eps |-> PerShare(acq.net_income, acq.shares_outstanding),
         new_shares_issued |-> new_shares_issued,
         total_shares_pro_forma |-> acq.shares_outstanding + new_shares_issued]

\* raw_ebitda_by_year, raw_da_by_year, raw_capex_by_year and the solver's arguments
SolverArgs(h, d, su) ==
    LET acq == h[d].acquirer
        tgt == TargetOf(h, d)
    IN  [projection_years |-> su.n_years,
         ebitda_by_year |->
            [yr \in 1..su.n_years |->
                (Grow(acq.revenue, 30, yr) * su.acq_ebitda_margin) \div 1000
                    + (Grow(tgt.revenue, tgt.revenue_growth_rate, yr) * su.tgt_ebitda_margin) \div 1000],
         da_by_year |->
            [yr \in 1..su.n_years |->
                acq.depreciation + tgt.depreciation + su.ppa.total_incremental_annual],
         capex_by_year |-> [yr \in 1..su.n_years |-> acq.capex + tgt.capex],
         tax_rate |-> acq.tax_rate]

\* One pass of the projection loop: the IncomeStatementYear of year yr
IncomeYear(h, d, su, ds, yr) ==
    LET acq == h[d].acquirer
        tgt == TargetOf(h, d)
        acq_gross_margin_base == GrossMarginBase(su.acq_ebitda_margin)
        tgt_gross_margin_base == GrossMarginBase(su.tgt_ebitda_margin)
        acq_rev_yr == Grow(acq.revenue, 30, yr)
        tgt_rev_yr == Grow(tgt.revenue, tgt.revenue_growth_rate, yr)
        rev_syn_yr == _synergy_year_value(RevenueSynergies(h, d), yr)
        total_rev == acq_rev_yr + tgt_rev_yr + rev_syn_yr
        combined_cogs == (acq_rev_yr * (1000 - acq_gross_margin_base)) \div 1000
                            + (tgt_rev_yr * (1000 - tgt_gross_margin_base)) \div 1000
        cost_syn_yr == _synergy_year_value(CostSynergies(h, d), yr)
        gross_profit == total_rev - combined_cogs
        acq_sga == (acq_rev_yr * (acq_gross_margin_base - su.acq_ebitda_margin)) \div 1000
        tgt_sga == (tgt_rev_yr * (tgt_gross_margin_base - su.tgt_ebitda_margin)) \div 1000
        combined_sga == acq_sga + tgt_sga - cost_syn_yr
        ebitda == gross_profit - combined_sga
        da_total == Grow(acq.depreciation, 30, yr)
                        + Grow(tgt.depreciation, tgt.revenue_growth_rate, yr)
                        + su.ppa.total_incremental_annual
        ebit == ebitda - da_total
        interest_exp == ds.total_interest_expense
        ebt == IF yr = 1 THEN ebit - interest_exp - su.transaction_costs
               ELSE ebit - interest_exp
        taxes == IF 0 < (ebt * acq.tax_rate) \div 1000 THEN (ebt * acq.tax_rate) \div 1000 ELSE 0
        net_income == ebt - taxes
        pro_forma_eps == PerShare(net_income, su.total_shares_pro_forma)
        standalone_eps_yr == Grow(su.acq_standalone_eps, 30, yr)
        abs_standalone == IF standalone_eps_yr < 0 THEN -standalone_eps_yr ELSE standalone_eps_yr
    IN  [year |-> yr, revenue |-> total_rev, cogs |-> combined_cogs,
         gross_profit |-> gross_profit, sga |-> combined_sga, ebitda |-> ebitda,
         da |-> da_total, ebit |-> ebit, interest_expense |-> interest_exp, ebt |-> ebt,
         taxes |-> taxes, net_income |-> net_income,
         acquirer_standalone_eps |-> standalone_eps_yr,
         pro_forma_eps |-> pro_forma_eps,
         \* in tenths of a percent
         accretion_dilution_pct |->
            IF standalone_eps_yr # 0
            THEN ((pro_forma_eps - standalone_eps_yr) * 1000) \div abs_standalone
            ELSE 0]

\* Variant: no reconciling item
TaxImpactNone(actual_eps_delta, components_sum) == 0

\* tax_impact = actual_eps_delta - components_sum
TaxImpact(actual_eps_delta, components_sum) == actual_eps_delta - components_sum

\* Variant: the bridge leaves share dilution out
ShareDilutionNone(new_shares_issued, shares, acq_standalone_ni_yr, standalone_eps_yr) == 0

\* share_dilution: the standalone net income spread over the pro forma shares
ShareDilution(new_shares_issued, shares, acq_standalone_ni_yr, standalone_eps_yr) ==
    IF new_shares_issued > 0 /\ shares > 0
    THEN -((acq_standalone_ni_yr \div shares) - standalone_eps_yr)
    ELSE 0

\* The same pass: the AccretionDilutionBridge of year yr, per share
BridgeYear(h, d, su, is, yr) ==
    LET acq == h[d].acquirer
        tgt == TargetOf(h, d)
        shares == su.total_shares_pro_forma
        after_tax(x) == (x * (1000 - acq.tax_rate)) \div 1000
        cost_syn_yr == _synergy_year_value(CostSynergies(h, d), yr)
        rev_syn_yr == _synergy_year_value(RevenueSynergies(h, d), yr)
        acq_standalone_ni_yr == is.acquirer_standalone_eps * acq.shares_outstanding
        target_ni_yr == Grow(tgt.net_income, tgt.revenue_growth_rate, yr)
        target_earnings_contribution == PerShare(target_ni_yr, shares)
        interest_drag == -PerShare(after_tax(is.interest_expense), shares)
        da_adj == -PerShare(after_tax(su.ppa.total_incremental_annual), shares)
        syn_benefit == PerShare(after_tax(cost_syn_yr + rev_syn_yr), shares)
        share_dilution == ShareDilution(su.new_shares_issued, shares, acq_standalone_ni_yr,
                                        is.acquirer_standalone_eps)
        components_sum == target_earnings_contribution + interest_drag + da_adj
                              + syn_benefit + share_dilution
        actual_eps_delta == is.pro_forma_eps - is.acquirer_standalone_eps
        tax_impact == TaxImpact(actual_eps_delta, components_sum)
    IN  [year |-> yr,
         target_earnings_contribution |-> target_earnings_contribution,
         interest_expense_drag |-> interest_drag,
         da_adjustment |-> da_adj,
         synergy_benefit |-> syn_benefit,
         share_dilution_impact |-> share_dilution,
         tax_impact |-> tax_impact,
         total_accretion_dilution |-> components_sum + tax_impact,
         total_accretion_dilution_pct |-> is.accretion_dilution_pct]

BalanceSheetAtClose(h, d, su) ==
    LET tgt == TargetOf(h, d)
        equity == tgt.working_capital + tgt.cash_on_hand - tgt.total_debt
    IN  [goodwill |-> su.ppa.goodwill,
         identifiable_intangibles |-> su.ppa.identifiable_intangibles,
         ppe_writeup |-> su.ppa.asset_writeup,
         new_acquisition_debt |-> su.acq_debt_total,
         cash_used |-> (tgt.acquisition_price * StructureOf(h, d).cash_percentage) \div 1000,
         shares_issued |-> su.new_shares_issued,
         target_equity_eliminated |-> IF 0 < equity THEN equity ELSE 0]

(***************************************************************************)
(* returns.py.  Multiples are in tenths, IRR in percent, MOIC in           *)
(* thousandths.  Every scenario has the cash flows [-equity_invested, 0,   *)
(* ..., 0, exit_equity], and _irr runs Newton-Raphson on them from 15%:    *)
(* when both are positive and exit_equity * (n + 1) is below               *)
(* equity_invested * 1.15 ** n the first step lands below -100%, the       *)
(* iterates run away and (1 + rate) ** t raises OverflowError, which       *)
(* nothing in compute_returns or run_deal catches; otherwise the iterates  *)
(* rise to the rate at which equity_invested compounds to exit_equity.     *)
(***************************************************************************)
\* The member of a set of one value
Only(S) == CHOOSE x \in S : TRUE

\* x / y in thousandths, for x >= 0 and y > 0
Ratio(x, y) == (x \div y) * 1000 + ((x % y) * 1000) \div y

\* The MOIC, in thousandths, below which Newton-Raphson leaves (-1, oo):
\* (n + 1) / 1.15 ** n
Runaway(n) == IF n <= 3 THEN 380 ELSE IF n <= 5 THEN 335 ELSE 333

\* The highest IRR the search below tells apart, in percent
MaxIrrPct == 900

\* v * (1 + r) ** n for r in percent, or more than cap as soon as it is above cap
RECURSIVE Compound(_, _, _, _)
Compound(v, r, n, cap) ==
    IF n = 0 \/ v > cap THEN v
    ELSE Only({Compound(grown, r, n - 1, cap) :
                  grown \in {(v \div 100) * (100 + r) + ((v % 100) * (100 + r)) \div 100}})

\* The highest rate in lo..hi at which invested compounds to no more than exit_equity
RECURSIVE RootBetween(_, _, _, _, _)
RootBetween(invested, n, exit_equity, lo, hi) ==
    IF lo = hi THEN lo
    ELSE Only({IF Compound(invested, mid, n, exit_equity) <= exit_equity
               THEN RootBetween(invested, n, exit_equity, mid, hi)
               ELSE RootBetween(invested, n, exit_equity, lo, mid - 1) :
                  mid \in {(lo + hi + 1) \div 2}})

\* Variant: the rate falls as the exit equity rises
IrrRootInverted(invested, n, exit_equity) == -RootBetween(invested, n, exit_equity, -100, MaxIrrPct)

\* The rate Newton-Raphson converges to
IrrRoot(invested, n, exit_equity) == RootBetween(invested, n, exit_equity, -100, MaxIrrPct)

\* _irr([-equity_invested] + [0.0] * (exit_year - 1) + [exit_equity])
_irr(equity_invested, exit_year, exit_equity) ==
    LET has_negative == -equity_invested < 0 \/ exit_equity < 0
        has_positive == -equity_invested > 0 \/ exit_equity > 0
    IN  IF ~(has_negative /\ has_positive) THEN [raised |-> FALSE, irr |-> -100]
        ELSE IF equity_invested > 0 /\ exit_equity > 0
        THEN IF Ratio(exit_equity, equity_invested) < Runaway(exit_year)
             THEN [raised |-> TRUE, irr |-> 0]
             ELSE [raised |-> FALSE, irr |-> IrrRoot(equity_invested, exit_year, exit_equity)]
        ELSE [raised |-> FALSE, irr |-> -100]

\* The exit multiples kept: round(entry_multiple + delta, 1) for the deltas of
\* -2.0 .. 2.0 with entry_multiple + delta > 1.0, in ascending order
ExitMultiples(acquisition_price, target_ebitda) ==
    LET deltas == <<-200, -150, -100, -50, 0, 50, 100, 150, 200>>
        entry == IF target_ebitda > 0 THEN (acquisition_price * 100) \div target_ebitda ELSE 0
        above(i) == IF target_ebitda > 0
                    THEN acquisition_price * 100 > (100 - deltas[i]) * target_ebitda
                    ELSE deltas[i] > 100
        kept == SelectSeq([i \in 1..9 |-> i], above)
    IN  [k \in 1..Len(kept) |-> (entry + deltas[kept[k]] + 5) \div 10]

\* running_cash = max(0.0, running_cash + yr_fcf), up to year yr
RECURSIVE CumulativeCash(_, _)
CumulativeCash(fcf_by_year, yr) ==
    IF yr = 0 THEN 0
    ELSE LET running_cash == CumulativeCash(fcf_by_year, yr - 1) + fcf_by_year[yr]
         IN  IF 0 < running_cash THEN running_cash ELSE 0

\* compute_returns: the scenarios by exit year and exit multiple, in that order
compute_returns(h, d, ebitda_by_year, ending_debt_by_year, fcf_by_year) ==
    LET acquisition_price == TargetOf(h, d).acquisition_price
        struct == StructureOf(h, d)
        paid == (acquisition_price * (struct.cash_percentage + struct.stock_percentage)) \div 1000
        floor10 == (acquisition_price * 100) \div 1000
        equity_invested == IF paid > floor10 THEN paid ELSE floor10
        target_ebitda == TargetOf(h, d).ebitda
        exit_multiples == ExitMultiples(acquisition_price, target_ebitda)
        exit_years == SelectSeq(<<3, 5, 7>>, LAMBDA y : y <= Len(ebitda_by_year))
        scenario(exit_year, exit_mult) ==
            LET ending_debt == ByYear(ending_debt_by_year, exit_year)
                cash_at_exit == CumulativeCash(fcf_by_year, exit_year)
                net_debt_at_exit == IF 0 < ending_debt - cash_at_exit
                                    THEN ending_debt - cash_at_exit ELSE 0
                exit_ev == (ebitda_by_year[exit_year] * exit_mult) \div 10
                exit_equity == IF 0 < exit_ev - net_debt_at_exit
                               THEN exit_ev - net_debt_at_exit ELSE 0
            IN  Only({[exit_year |-> exit_year, exit_multiple |-> exit_mult,
                       exit_enterprise_value |-> exit_ev,
                       raised |-> rate.raised,
                       irr |-> IF -100 > rate.irr THEN -100 ELSE rate.irr,
                       moic |-> IF equity_invested > 0 /\ ~rate.raised
                                THEN Ratio(exit_equity, equity_invested) ELSE 0] :
                          rate \in {_irr(equity_invested, exit_year, exit_equity)}})
        m == Len(exit_multiples)
        scenarios == [k \in 1..(Len(exit_years) * m) |->
                         scenario(exit_years[((k - 1) \div m) + 1], exit_multiples[((k - 1) % m) + 1])]
    IN  [raised |-> \E k \in 1..Len(scenarios) : scenarios[k].raised,
         entry_multiple |-> IF target_ebitda > 0
                            THEN (acquisition_price * 100) \div target_ebitda ELSE 0,
         scenarios |-> scenarios]

\* run_deal from its first line to the returns analysis
Projection(h, d) ==
    LET su == Setup(h, d)
        capex == h[d].acquirer.capex + TargetOf(h, d).capex
        ProjectionOf(sched) ==
            Only({[income_statement |-> income_statement,
                   returns |-> compute_returns(h, d,
                                  [yr \in 1..su.n_years |-> income_statement[yr].ebitda],
                                  [yr \in 1..su.n_years |-> sched.results[yr].ending_debt_balance],
                                  [yr \in 1..su.n_years |->
                                      income_statement[yr].net_income + income_statement[yr].da
                                          - capex - sched.results[yr].optional_cash_sweep]),
                   ad_bridge |-> [yr \in 1..su.n_years |->
                                     BridgeYear(h, d, su, income_statement[yr], yr)],
                   balance_sheet |-> BalanceSheetAtClose(h, d, su),
                   debt_schedules |-> sched.results,
                   any_non_convergence |-> sched.any_non_convergence] :
                      income_statement \in
                          {[yr \in 1..su.n_years |-> IncomeYear(h, d, su, sched.results[yr], yr)]}})
    IN  Only({ProjectionOf(sched) :
                 sched \in {build_debt_schedule(su.tranches, SolverArgs(h, d, su))}})

(***************************************************************************)
(* sensitivity.py.  build_sensitivity_matrix hands compute_fn the row and  *)
(* column values it is given, and generate_all_sensitivity_matrices gives  *)
(* it the axis values times 100: the price premiums and the synergy        *)
(* multipliers reach price_vs_synergy and price_vs_cash_mix as -20.0 ..    *)
(* 40.0 and 0.0 .. 150.0, and are used there as they come.                 *)
(***************************************************************************)
\* [p * 100 for p in price_premiums], [s * 100 for s in synergy_multipliers],
\* [c * 100 for c in cash_percentages], [r * 100 for r in interest_rates], leverage_turns
PriceRows == <<-20, -10, 0, 10, 20, 30, 40>>
SynergyCols == <<0, 25, 50, 75, 100, 125, 150>>
CashCols == <<0, 20, 40, 60, 80, 100>>
RateRows == <<5, 6, 7, 8, 9, 10, 11>>
LeverageCols == <<2, 3, 4, 5, 6, 7>>

RowValues(matrix) == IF matrix = 3 THEN RateRows ELSE PriceRows
ColValues(matrix) == IF matrix = 1 THEN SynergyCols ELSE IF matrix = 2 THEN CashCols ELSE LeverageCols

\* obj.field = value on the object of identity id
Assign(h, id, field, value) == [h EXCEPT ![id] = [@ EXCEPT ![field] = value]]

\* for s in items: s.annual_amount = s.annual_amount * multiplier
RECURSIVE ScaleItems(_, _, _)
ScaleItems(h, ids, multiplier) ==
    IF ids = <<>> THEN h
    ELSE ScaleItems(Assign(h, ids[1], "annual_amount", h[ids[1]].annual_amount * multiplier),
                    Tail(ids), multiplier)

_scale_synergies(h, d, multiplier, base_total) ==
    LET syn == h[d].synergies
    IN  IF base_total <= 0
        THEN IF multiplier > 0
             THEN LET item == [annual_amount |-> ((TargetOf(h, d).revenue * 20) \div 1000) * multiplier,
                               phase_in_years |-> 3, cost_to_achieve |-> 0]
                      id == NextId(h)
                      h1 == [i \in DOMAIN h \cup {id} |-> IF i = id THEN item ELSE h[i]]
                  IN  Assign(h1, syn, "cost_synergies", <<id>>)
             ELSE h
        ELSE ScaleItems(h, h[syn].cost_synergies \o h[syn].revenue_synergies, multiplier)

\* The locals generate_all_sensitivity_matrices takes from the baseline deal
BaseValues(h, d) ==
    [base_price |-> TargetOf(h, d).acquisition_price,
     base_synergies |-> SumField(CostSynergies(h, d) \o RevenueSynergies(h, d), "annual_amount"),
     combined_ebitda |-> h[d].acquirer.ebitda + TargetOf(h, d).ebitda]

price_vs_synergy(h, d, g, price_prem, syn_mult) ==
    LET c == DeepCopyDeal(h, d)
        h1 == Assign(c.heap, c.heap[c.deal].target, "acquisition_price", g.base_price * (1 + price_prem))
    IN  [heap |-> _scale_synergies(h1, c.deal, syn_mult, g.base_synergies), deal |-> c.deal,
         raised |-> FALSE]

price_vs_cash_mix(h, d, g, price_prem, cash_pct) ==
    LET c == DeepCopyDeal(h, d)
        st == c.heap[c.deal].structure
        h1 == Assign(c.heap, c.heap[c.deal].target, "acquisition_price", g.base_price * (1 + price_prem))
        remaining == 1000 - h1[st].debt_percentage
        cash_frac == IF remaining <= 0 THEN 0
                     ELSE IF cash_pct * 10 < remaining THEN cash_pct * 10 ELSE remaining
        stock_frac == IF remaining <= 0 THEN 0 ELSE remaining - cash_frac
    IN  [heap |-> Assign(Assign(h1, st, "cash_percentage", cash_frac), st, "stock_percentage", stock_frac),
         deal |-> c.deal, raised |-> FALSE]

\* for tranche in modified.structure.debt_tranches: tranche.interest_rate = rate
RECURSIVE SetRates(_, _, _)
SetRates(h, ids, rate) ==
    IF ids = <<>> THEN h ELSE SetRates(Assign(h, ids[1], "interest_rate", rate), Tail(ids), rate)

\* raised: DebtTranche(amount=...) refuses an amount that is not > 0
interest_vs_leverage(h, d, g, rate_pct, turns) ==
    LET c == DeepCopyDeal(h, d)
        st == c.heap[c.deal].structure
        rate == rate_pct * 10
        total_debt_implied == g.combined_ebitda * turns
        implied_pct == (total_debt_implied * 1000) \div g.base_price
        debt_pct == IF 950 < implied_pct THEN 950 ELSE implied_pct
        remaining == 1000 - debt_pct
        orig_non_debt == StructureOf(h, d).cash_percentage + StructureOf(h, d).stock_percentage
        cash_frac == IF orig_non_debt > 0
                     THEN (StructureOf(h, d).cash_percentage * remaining) \div orig_non_debt
                     ELSE remaining
        stock_frac == IF orig_non_debt > 0 THEN remaining - cash_frac ELSE 0
        h1 == Assign(Assign(Assign(c.heap, st, "debt_percentage", debt_pct),
                            st, "cash_percentage", cash_frac), st, "stock_percentage", stock_frac)
        h2 == SetRates(h1, h1[st].debt_tranches, rate)
        amount == (g.base_price * debt_pct) \div 1000
        id == NextId(h2)
        h3 == [i \in DOMAIN h2 \cup {id} |->
                  IF i = id THEN Tranche("Term Loan", amount, rate, 7, "straight_line") ELSE h2[i]]
    IN  IF h2[st].debt_tranches # <<>>
        THEN [heap |-> h2, deal |-> c.deal, raised |-> FALSE]
        ELSE IF amount > 0
        THEN [heap |-> Assign(h3, st, "debt_tranches", <<id>>), deal |-> c.deal, raised |-> FALSE]
        ELSE [heap |-> h2, deal |-> c.deal, raised |-> TRUE]

\* compute_fn(row_val, col_val) of the matrix being built
ComputeFn(h, d, g) ==
    LET row_val == RowValues(g.matrix)[g.row]
        col_val == ColValues(g.matrix)[g.col]
    IN  IF g.matrix = 1 THEN price_vs_synergy(h, d, g, row_val, col_val)
        ELSE IF g.matrix = 2 THEN price_vs_cash_mix(h, d, g, row_val, col_val)
        ELSE interest_vs_leverage(h, d, g, row_val, col_val)

\* The next cell in build_sensitivity_matrix's two loops, then the next matrix
NextCell(g, value) ==
    LET last_col == g.col = Len(ColValues(g.matrix))
        last_row == g.row = Len(RowValues(g.matrix))
        data == Append(g.data, value)
    IN  IF ~last_col THEN [g EXCEPT !.col = @ + 1, !.data = data]
        ELSE IF ~last_row THEN [g EXCEPT !.row = @ + 1, !.col = 1, !.data = data]
        ELSE [g EXCEPT !.matrix = @ + 1, !.row = 1, !.col = 1, !.data = <<>>,
                       !.matrices = Append(@, [row_values |-> RowValues(g.matrix),
                                               col_values |-> ColValues(g.matrix),
                                               data |-> data])]

(***************************************************************************)
(* risk_analyzer.py and the rest of run_deal: what is computed from the    *)
(* deal after the sensitivity matrices                                     *)
(***************************************************************************)
\* The RiskItem of the leverage check, or none
_leverage_risk(h, d) ==
    LET acq_debt == (TargetOf(h, d).acquisition_price * StructureOf(h, d).debt_percentage) \div 1000
        total_debt == acq_debt + h[d].acquirer.total_debt
        combined_ebitda == h[d].acquirer.ebitda + TargetOf(h, d).ebitda
    IN  IF combined_ebitda <= 0 THEN <<>>
        ELSE IF total_debt < 4 * combined_ebitda THEN <<>>
        ELSE <<[metric_name |-> "Post-Close Debt / EBITDA",
                severity |-> IF total_debt >= 6 * combined_ebitda THEN "critical"
                             ELSE IF total_debt > 5 * combined_ebitda THEN "high"
                             ELSE "medium",
                current_value |-> (total_debt * 1000) \div combined_ebitda]>>

\* The two scorecard metrics taken from the deal's synergies and price
Scorecard(h, d) ==
    LET total_annual_synergies ==
            SumField(CostSynergies(h, d) \o RevenueSynergies(h, d), "annual_amount")
        breakeven == (total_annual_synergies * 300) \div 1000
    IN  [breakeven_synergy |-> IF 0 < breakeven THEN breakeven ELSE 0,
         synergy_benchmark_low |-> (TargetOf(h, d).acquisition_price * 50) \div 1000]

\* The DefensePositioning of a defense target with a defense profile, or none;
\* the backlog coverage ratio is in thousandths
_compute_defense_positioning(h, d) ==
    LET tgt == TargetOf(h, d)
    IN  IF tgt.industry # "Defense & National Security" \/ tgt.defense_profile = <<>> THEN <<>>
        ELSE LET dp == tgt.defense_profile[1]
             IN  <<[combined_backlog |-> dp.contract_backlog_total,
                    backlog_coverage_ratio |->
                        IF tgt.revenue > 0 THEN (dp.contract_backlog_total * 1000) \div tgt.revenue
                        ELSE 0]>>

\* The verdict of run_deal from the year-1 accretion (tenths of a percent); the
\* red branch divides by (1 - acq.tax_rate) for its headline and raises
\* ZeroDivisionError when the acquirer's tax rate is 1.0
Verdict(h, f) ==
    LET y1_ad == f.proj.income_statement[1].accretion_dilution_pct
        defense_positioning == _compute_defense_positioning(h, f.deal)
        is_defense_deal == defense_positioning # <<>>
        defense_uplift == is_defense_deal /\ defense_positioning[1].backlog_coverage_ratio >= 2000
    IN  IF y1_ad > 20 THEN [raised |-> FALSE, deal_verdict |-> "green"]
        ELSE IF y1_ad >= -20 \/ (defense_uplift /\ y1_ad >= -80)
        THEN [raised |-> FALSE, deal_verdict |-> "yellow"]
        ELSE IF 1000 - h[f.deal].acquirer.tax_rate = 0
        THEN [raised |-> TRUE, deal_verdict |-> "none"]
        ELSE [raised |-> FALSE, deal_verdict |-> "red"]

\* The DealOutput run_deal returns
DealOutput(h, f) ==
    [pro_forma_income_statement |-> f.proj.income_statement,
     balance_sheet_at_close |-> f.proj.balance_sheet,
     accretion_dilution_bridge |-> f.proj.ad_bridge,
     sensitivity_matrices |-> f.sensitivity_matrices,
     returns_analysis |-> f.proj.returns.scenarios,
     risk_assessment |-> _leverage_risk(h, f.deal),
     deal_scorecard |-> Scorecard(h, f.deal),
     deal_verdict |-> Verdict(h, f).deal_verdict,
     convergence_warning |-> f.proj.any_non_convergence]

\* A validated acquirer, target, structure and PPA assumptions
Acquirer(ebitda, net_income, tax_rate) ==
    [revenue |-> 10000, ebitda |-> ebitda, net_income |-> net_income, total_debt |-> 1000,
     cash_on_hand |-> 500, shares_outstanding |-> 1000, share_price |-> 20,
     tax_rate |-> tax_rate, depreciation |-> 300, capex |-> 200, working_capital |-> 0]

Target(ebitda, total_debt, cash_on_hand, working_capital, acquisition_price) ==
    [revenue |-> 4000, ebitda |-> ebitda, net_income |-> 300, total_debt |-> total_debt,
     cash_on_hand |-> cash_on_hand, depreciation |-> 100, capex |-> 80,
     working_capital |-> working_capital, acquisition_price |-> acquisition_price,
     revenue_growth_rate |-> 50, industry |-> "Technology", defense_profile |-> <<>>]

Structure(cash_percentage, stock_percentage, debt_percentage) ==
    [cash_percentage |-> cash_percentage, stock_percentage |-> stock_percentage,
     debt_percentage |-> debt_percentage, transaction_fees_pct |-> 20, advisory_fees |-> 10]

PpaAssumptions(asset_writeup, identifiable_intangibles) ==
    [asset_writeup |-> asset_writeup, asset_writeup_useful_life |-> 15,
     identifiable_intangibles |-> identifiable_intangibles, intangible_useful_life |-> 10]

\* No schedule is being built
SchedIdle ==
    /\ tranches = <<>>
    /\ args = << >>
    /\ bds = << >>
    /\ sy = IdleFrame
    /\ convergence_warning = FALSE

(***************************************************************************)
(* run_deal, called by a caller that holds one deal and runs it twice,     *)
(* once with and once without the sensitivity matrices.  The deals of the  *)
(* model have finite amounts.  An exception inside a nested run would make *)
(* the cell 0.0; the parts of run_deal modelled here raise none.           *)
(***************************************************************************)
Frame(d, include_sensitivity) ==
    [deal |-> d, include_sensitivity |-> include_sensitivity, stage |-> "project",
     proj |-> << >>, sensitivity_matrices |-> <<>>, gen |-> << >>]

Top == stack[Len(stack)]
SetTop(f) == [stack EXCEPT ![Len(stack)] = f]

\* What is left of the heap when only the caller's deal and the frames' deals are held
HeldBy(h, frames) ==
    LET ids == Reach(h, 1) \cup UNION { Reach(h, frames[i].deal) : i \in 1..Len(frames) }
    IN  [i \in ids |-> h[i]]

\* Variant: the nested run asked for its own sensitivity matrices
NestedIncludeSensitivityOn == TRUE

\* out = run_deal(modified_deal, include_sensitivity=False)
NestedIncludeSensitivity == FALSE

SynergyItem(annual_amount, phase_in_years) ==
    [annual_amount |-> annual_amount, phase_in_years |-> phase_in_years, cost_to_achieve |-> 0]

DealInit ==
    \E target_ebitda \in {800, -2000, -2600},
       structure \in {Structure(400, 200, 400), Structure(1000, 0, 0)},
       ts \in {<<>>, <<Tranche("Term Loan A", 2400, 70, 5, "straight_line")>>},
       with_synergies \in BOOLEAN,
       order \in {<<FALSE, TRUE>>, <<TRUE, FALSE>>} :
        /\ heap = NewDeal(Acquirer(2000, 1000, 250), Target(target_ebitda, 200, 100, 50, 6000),
                          structure, ts,
                          IF with_synergies THEN <<SynergyItem(100, 3)>> ELSE <<>>,
                          IF with_synergies THEN <<SynergyItem(60, 2)>> ELSE <<>>,
                          PpaAssumptions(300, 600), 3)
        /\ pc = "caller"
        /\ stack = <<>>
        /\ calls = order
        /\ outs = <<>>
        /\ ppa = NoPpa
        /\ SchedIdle

\* The caller calls run_deal(deal, include_sensitivity)
CallRunDeal ==
    /\ pc = "caller"
    /\ stack = <<>>
    /\ calls # <<>>
    /\ stack' = <<Frame(1, Head(calls))>>
    /\ calls' = Tail(calls)
    /\ UNCHANGED <<pc, heap, outs, ppa, tranches, args, bds, sy, convergence_warning>>

\* run_deal from its first line to the returns analysis
Project ==
    /\ stack # <<>>
    /\ Top.stage = "project"
    /\ \E proj \in {Projection(heap, Top.deal)} :
           /\ ~proj.returns.raised
           /\ stack' = SetTop([Top EXCEPT !.proj = proj, !.stage = "sensitivity"])
    /\ UNCHANGED <<pc, heap, calls, outs, ppa, tranches, args, bds, sy, convergence_warning>>

\* compute_returns raises: the exception leaves the top-level run_deal, or is
\* caught by the _accretion_fn of the cell that called this run, which returns 0.0
ProjectRaises ==
    /\ stack # <<>>
    /\ Top.stage = "project"
    /\ Projection(heap, Top.deal).returns.raised
    /\ IF Len(stack) = 1
       THEN /\ stack' = <<>>
            /\ outs' = Append(outs, [raised |-> TRUE, output |-> << >>])
            /\ heap' = heap
       ELSE LET rest == SubSeq(stack, 1, Len(stack) - 1)
                parent == rest[Len(rest)]
            IN  /\ stack' = [rest EXCEPT ![Len(rest)] = [parent EXCEPT !.gen = NextCell(@, 0)]]
                /\ outs' = outs
                /\ heap' = HeldBy(heap, rest)
    /\ UNCHANGED <<pc, calls, ppa, tranches, args, bds, sy, convergence_warning>>

\* include_sensitivity is false: sensitivity_matrices = []
SkipSensitivity ==
    /\ stack # <<>>
    /\ Top.stage = "sensitivity"
    /\ ~Top.include_sensitivity
    /\ stack' = SetTop([Top EXCEPT !.sensitivity_matrices = <<>>, !.stage = "finish"])
    /\ UNCHANGED <<pc, heap, calls, outs, ppa, tranches, args, bds, sy, convergence_warning>>

\* include_sensitivity is true: generate_all_sensitivity_matrices is entered
EnterSensitivity ==
    /\ stack # <<>>
    /\ Top.stage = "sensitivity"
    /\ Top.include_sensitivity
    /\ LET b == BaseValues(heap, Top.deal)
       IN  stack' = SetTop([Top EXCEPT !.stage = "matrices",
                                       !.gen = [base_price |-> b.base_price,
                                                base_synergies |-> b.base_synergies,
                                                combined_ebitda |-> b.combined_ebitda,
                                                matrix |-> 1, row |-> 1, col |-> 1,
                                                data |-> <<>>, matrices |-> <<>>]])
    /\ UNCHANGED <<pc, heap, calls, outs, ppa, tranches, args, bds, sy, convergence_warning>>

\* A cell: compute_fn perturbs a copy and engine_fn calls run_deal on it
CellCall ==
    /\ stack # <<>>
    /\ Top.stage = "matrices"
    /\ Top.gen.matrix <= 3
    /\ LET r == ComputeFn(heap, Top.deal, Top.gen)
       IN  /\ ~r.raised
           /\ heap' = r.heap
           /\ stack' = Append(stack, Frame(r.deal, NestedIncludeSensitivity))
    /\ UNCHANGED <<pc, calls, outs, ppa, tranches, args, bds, sy, convergence_warning>>

\* A cell whose compute_fn raises before it calls engine_fn: the exception leaves
\* the top-level run_deal, or is caught by the _accretion_fn of an enclosing cell
CellRaises ==
    /\ stack # <<>>
    /\ Top.stage = "matrices"
    /\ Top.gen.matrix <= 3
    /\ ComputeFn(heap, Top.deal, Top.gen).raised
    /\ IF Len(stack) = 1
       THEN /\ stack' = <<>>
            /\ outs' = Append(outs, [raised |-> TRUE, output |-> << >>])
            /\ heap' = HeldBy(heap, <<>>)
       ELSE LET rest == SubSeq(stack, 1, Len(stack) - 1)
                parent == rest[Len(rest)]
            IN  /\ stack' = [rest EXCEPT ![Len(rest)] = [parent EXCEPT !.gen = NextCell(@, 0)]]
                /\ outs' = outs
                /\ heap' = HeldBy(heap, rest)
    /\ UNCHANGED <<pc, calls, ppa, tranches, args, bds, sy, convergence_warning>>

\* All three matrices are built
MatricesDone ==
    /\ stack # <<>>
    /\ Top.stage = "matrices"
    /\ Top.gen.matrix = 4
    /\ stack' = SetTop([Top EXCEPT !.sensitivity_matrices = Top.gen.matrices,
                                   !.gen = << >>, !.stage = "finish"])
    /\ UNCHANGED <<pc, heap, calls, outs, ppa, tranches, args, bds, sy, convergence_warning>>

\* A nested run returns to _accretion_fn, which gives the cell its value:
\* year-1 accretion / 100, rounded to 4 places (kept in ten-thousandths), and
\* 0.0 when the nested run raised
ReturnToCell ==
    /\ Len(stack) >= 2
    /\ Top.stage = "finish"
    /\ LET out == DealOutput(heap, Top)
           value == IF Verdict(heap, Top).raised THEN 0
                    ELSE IF out.pro_forma_income_statement # <<>>
                    THEN out.pro_forma_income_statement[1].accretion_dilution_pct * 10
                    ELSE 0
           rest == SubSeq(stack, 1, Len(stack) - 1)
           parent == rest[Len(rest)]
       IN  /\ stack' = [rest EXCEPT ![Len(rest)] = [parent EXCEPT !.gen = NextCell(@, value)]]
           /\ heap' = HeldBy(heap, rest)
    /\ UNCHANGED <<pc, calls, outs, ppa, tranches, args, bds, sy, convergence_warning>>

\* The top-level run returns its DealOutput to the caller, or raises
ReturnToCaller ==
    /\ Len(stack) = 1
    /\ Top.stage = "finish"
    /\ outs' = Append(outs, IF Verdict(heap, Top).raised
                             THEN [raised |-> TRUE, output |-> << >>]
                             ELSE [raised |-> FALSE, output |-> DealOutput(heap, Top)])
    /\ stack' = <<>>
    /\ UNCHANGED <<pc, heap, calls, ppa, tranches, args, bds, sy, convergence_warning>>

\* The caller has made its calls
CallerDone ==
    /\ pc = "caller"
    /\ stack = <<>>
    /\ calls = <<>>
    /\ pc' = "done"
    /\ UNCHANGED <<heap, stack, calls, outs, ppa, tranches, args, bds, sy, convergence_warning>>

DealNext ==
    \/ CallRunDeal
    \/ Project
    \/ ProjectRaises
    \/ SkipSensitivity
    \/ EnterSensitivity
    \/ CellCall
    \/ CellRaises
    \/ MatricesDone
    \/ ReturnToCell
    \/ ReturnToCaller
    \/ CallerDone

SpecDeal == DealInit /\ [][DealNext]_vars

(***************************************************************************)
(* run_deal called once, without sensitivity, over a wider range of deals  *)
(***************************************************************************)
\* A defense target with a backlog, or the target as it is
WithBacklog(target, backlog) ==
    IF backlog = 0 THEN target
    ELSE [target EXCEPT !.industry = "Defense & National Security",
                        !.defense_profile = <<[contract_backlog_total |-> backlog]>>]

RunInit ==
    \E tax_rate \in {250, 1000}, net_income \in {0, 1000}, ebitda \in {-200, 800},
       acquisition_price \in {3000, 6000, 12000},
       structure \in {Structure(400, 200, 400), Structure(1000, 0, 0), Structure(0, 1000, 0)},
       backlog \in {0, 4000, 9000},
       with_synergies \in BOOLEAN :
        /\ heap = NewDeal(Acquirer(2000, net_income, tax_rate),
                          WithBacklog(Target(ebitda, 200, 100, 50, acquisition_price), backlog),
                          structure, <<>>,
                          IF with_synergies THEN <<SynergyItem(100, 3)>> ELSE <<>>,
                          IF with_synergies THEN <<SynergyItem(60, 2)>> ELSE <<>>,
                          PpaAssumptions(300, 600), 3)
        /\ pc = "caller"
        /\ stack = <<>>
        /\ calls = <<FALSE>>
        /\ outs = <<>>
        /\ ppa = NoPpa
        /\ SchedIdle

RunNext ==
    \/ CallRunDeal
    \/ Project
    \/ ProjectRaises
    \/ SkipSensitivity
    \/ ReturnToCaller
    \/ CallerDone

SpecRun == RunInit /\ [][RunNext]_vars

\* The year-1 accretion of the run that is about to return, and whether its
\* target is a defense target whose backlog is at least twice its revenue
Year1AD == Top.proj.income_statement[1].accretion_dilution_pct
BacklogCovers ==
    /\ TargetOf(heap, Top.deal).industry = "Defense & National Security"
    /\ TargetOf(heap, Top.deal).defense_profile # <<>>
    /\ TargetOf(heap, Top.deal).defense_profile[1].contract_backlog_total
           >= 2 * TargetOf(heap, Top.deal).revenue

\* C11: a run that has reached its verdict returns green when year-1 accretion
\* is above 2%, yellow when it is within [-2%, 2%] or, for a defense deal with
\* backlog coverage of 2x or more, within [-8%, 2%], and red in every other case.
C11_VerdictPartition ==
    (stack # <<>> /\ Top.stage = "finish") =>
        /\ ~Verdict(heap, Top).raised
        /\ Verdict(heap, Top).deal_verdict =
               IF Year1AD > 20 THEN "green"
               ELSE IF Year1AD >= -20 \/ (BacklogCovers /\ Year1AD >= -80) THEN "yellow"
               ELSE "red"

\* A defense deal with backlog coverage is yellow below -2%, and a deal without
\* it is red at the same accretion
C11_Witness ==
    /\ stack # <<>>
    /\ Top.stage = "finish"
    /\ Year1AD < -20
    /\ Year1AD >= -80
    /\ BacklogCovers
    /\ Verdict(heap, Top).deal_verdict = "yellow"

\* The share dilution impact of every projection year of run i is non-zero
DilutionEveryYear(i) ==
    \A yr \in 1..Len(stack[i].proj.ad_bridge) :
        stack[i].proj.ad_bridge[yr].share_dilution_impact # 0

BridgeSum(b) ==
    b.target_earnings_contribution + b.interest_expense_drag + b.da_adjustment
        + b.synergy_benefit + b.share_dilution_impact + b.tax_impact

\* The runs whose projection is computed
Projected == {i \in 1..Len(stack) : stack[i].proj # << >>}

\* C4: in every run, top-level or nested, and for every projection year, the six
\* bridge components sum to within half a cent per share (50 ten-thousandths) of
\* pro_forma_eps - acquirer_standalone_eps of that year.
C4_BridgeReconciles ==
    \A i \in Projected :
        \A yr \in 1..Len(stack[i].proj.ad_bridge) :
            LET b == stack[i].proj.ad_bridge[yr]
                is == stack[i].proj.income_statement[yr]
                diff == BridgeSum(b) - (is.pro_forma_eps - is.acquirer_standalone_eps)
            IN  /\ b.year = is.year
                /\ diff < 50
                /\ -diff < 50

\* A run with new shares, interest, synergies and step-up D&A has a bridge whose
\* five explicit components are all non-zero and leave a non-zero reconciling item
C4_Witness ==
    \E i \in Projected :
        LET b == stack[i].proj.ad_bridge[1]
        IN  /\ b.target_earnings_contribution # 0
            /\ b.interest_expense_drag # 0
            /\ b.da_adjustment # 0
            /\ b.synergy_benefit # 0
            /\ b.share_dilution_impact # 0
            /\ b.tax_impact # 0

\* C5: run_deal is never more than two deep; a run called from a sensitivity cell
\* has include_sensitivity false, never enters generate_all_sensitivity_matrices
\* and carries no sensitivity matrices.
C5_NestedRunsHaveNoSensitivity ==
    /\ Len(stack) <= 2
    /\ \A i \in 2..Len(stack) :
        /\ ~stack[i].include_sensitivity
        /\ stack[i].stage # "matrices"
        /\ stack[i].gen = << >>
        /\ stack[i].sensitivity_matrices = <<>>

\* A run called from a cell of the top-level run is about to return its output
C5_Witness ==
    /\ Len(stack) = 2
    /\ stack[1].stage = "matrices"
    /\ stack[2].stage = "finish"
    /\ DealOutput(heap, stack[2]).sensitivity_matrices = <<>>

\* A DealOutput without its sensitivity matrices
NonSensitivityFields(output) == [output EXCEPT !.sensitivity_matrices = <<>>]

\* C6: once the caller has run the same deal with and without sensitivity, both
\* runs have returned and their outputs agree in every field but the matrices.
C6_SameOutputWithoutSensitivity ==
    Len(outs) = 2 =>
        /\ ~outs[1].raised
        /\ ~outs[2].raised
        /\ NonSensitivityFields(outs[1].output) = NonSensitivityFields(outs[2].output)

\* Both runs have returned, one with three matrices and one with none
C6_Witness ==
    /\ Len(outs) = 2
    /\ ~outs[1].raised
    /\ ~outs[2].raised
    /\ \E i \in 1..2 : Len(outs[i].output.sensitivity_matrices) = 3
    /\ \E i \in 1..2 : outs[i].output.sensitivity_matrices = <<>>

\* C7: no step of a run, cells included, changes the caller's deal: its price,
\* structure percentages, tranches and their rates, and synergy amounts.
C7_CallersDealUnchanged == [][DealValue(heap', 1) = DealValue(heap, 1)]_vars

\* A cell's run is under way on a copy whose price, structure, rates or synergies
\* differ from the caller's
C7_Witness ==
    /\ Len(stack) = 2
    /\ stack[2].deal # 1
    /\ LET copy == DealValue(heap, stack[2].deal)
           base == DealValue(heap, 1)
       IN  \/ copy.target.acquisition_price # base.target.acquisition_price
           \/ copy.structure # base.structure
           \/ copy.cost_synergies # base.cost_synergies

\* The returns grid of the run of frame i
Grid(i) == stack[i].proj.returns.scenarios

validate_percentages_wide(self) ==
    LET total == self.cash_percentage + self.stock_percentage + self.debt_percentage
    IN  ~(total - 1000 > 10 \/ 1000 - total > 10)

\* validate_percentages returns self (TRUE) or raises ValueError (FALSE)
validate_percentages(self) ==
    LET total == self.cash_percentage + self.stock_percentage + self.debt_percentage
    IN  ~(total - 1000 > 1 \/ 1000 - total > 1)

\* DealStructure.__init__: the field constraints, then the model validator
DealStructureAccepts(payload) ==
    /\ \A f \in {"cash_percentage", "stock_percentage", "debt_percentage"} :
           payload[f] >= 0 /\ payload[f] <= 1000
    /\ validate_percentages(payload)

StructInit ==
    \E cash_percentage \in {0, 398, 399, 400, 1100},
       stock_percentage \in {0, 200, 602},
       debt_percentage \in {-100, 400, 401},
       target_ebitda \in {800, -2000} :
        /\ heap = <<[structure |-> Structure(cash_percentage, stock_percentage, debt_percentage),
                     target_ebitda |-> target_ebitda]>>
        /\ pc = "construct"
        /\ stack = <<>>
        /\ calls = <<TRUE>>
        /\ outs = <<>>
        /\ ppa = NoPpa
        /\ SchedIdle

\* The constructor returns and the deal around the structure goes to run_deal
ConstructAccepted ==
    /\ pc = "construct"
    /\ DealStructureAccepts(heap[1].structure)
    /\ heap' = NewDeal(Acquirer(2000, 1000, 250),
                       Target(heap[1].target_ebitda, 200, 100, 50, 6000),
                       heap[1].structure, <<>>, <<>>, <<>>,
                       PpaAssumptions(300, 600), 3)
    /\ pc' = "caller"
    /\ UNCHANGED <<stack, calls, outs, ppa, tranches, args, bds, sy, convergence_warning>>

\* The constructor raises ValidationError: there is no structure and no deal
ConstructRejected ==
    /\ pc = "construct"
    /\ ~DealStructureAccepts(heap[1].structure)
    /\ heap' = <<>>
    /\ pc' = "rejected"
    /\ UNCHANGED <<stack, calls, outs, ppa, tranches, args, bds, sy, convergence_warning>>

StructNext ==
    \/ ConstructAccepted
    \/ ConstructRejected
    \/ DealNext

SpecStruct == StructInit /\ [][StructNext]_vars

\* cash + stock + debt of a structure is within 0.001 of 1.0
SumWithinTolerance(structure) ==
    LET total == structure.cash_percentage + structure.stock_percentage
                     + structure.debt_percentage
    IN  total \in 999..1001

\* C16: a DealStructure is accepted at construction only if cash + stock + debt
\* is within 0.001 of 1.0, and the structure of every deal run_deal works on,
\* top-level or nested, has such a sum: a payload whose sum deviates by more is
\* rejected and no run is ever started on it.
C16_StructureSumValidated ==
    /\ (pc = "construct" /\ ~SumWithinTolerance(heap[1].structure)) => ~ENABLED ConstructAccepted
    /\ pc = "rejected" => (heap = <<>> /\ stack = <<>>)
    /\ \A i \in 1..Len(stack) : SumWithinTolerance(StructureOf(heap, stack[i].deal))

\* A nested run is working on a copy whose structure was reassigned by
\* sensitivity.py, in a deal built from a payload with a sum of 0.999 or 1.001
C16_Witness ==
    /\ Len(stack) = 2
    /\ StructureOf(heap, 1).cash_percentage + StructureOf(heap, 1).stock_percentage
           + StructureOf(heap, 1).debt_percentage # 1000
    /\ StructureOf(heap, stack[2].deal) # StructureOf(heap, 1)

(***************************************************************************)
(* analyze_risks on its own.  Each risk function returns None or a         *)
(* RiskItem of one of the severities its code assigns, or raises: calls    *)
(* holds what the functions still to run will do, in the order of          *)
(* risk_functions, and the frame holds the list risks.                     *)
(***************************************************************************)
\* Variant: HIGH and MEDIUM exchange keys
severity_order_swapped(severity) ==
    CASE severity = "critical" -> 0
      [] severity = "high" -> 2
      [] severity = "medium" -> 1
      [] severity = "low" -> 3
      [] OTHER -> 4

\* severity_order.get(r.severity, 4)
severity_order(severity) ==
    CASE severity = "critical" -> 0
      [] severity = "high" -> 1
      [] severity = "medium" -> 2
      [] severity = "low" -> 3
      [] OTHER -> 4

\* risks.sort(key=...): stable, so the items of each key keep their order
RECURSIVE SortRisks(_, _)
SortRisks(risks, key) ==
    IF key > 4 THEN <<>>
    ELSE SelectSeq(risks, LAMBDA r : severity_order(r.severity) = key) \o SortRisks(risks, key + 1)

\* What a risk function does: its name and an outcome
RiskCall(fn, result) == [fn |-> fn, result |-> result]

\* The outcomes of the six general checks and of the five defense checks
GeneralOutcomes ==
    {<<RiskCall("_leverage_risk", a), RiskCall("_synergy_execution_risk", b),
       RiskCall("_interest_rate_sensitivity_risk", c), RiskCall("_purchase_price_risk", e),
       RiskCall("_integration_cost_risk", f), RiskCall("_revenue_synergy_concentration_risk", g)>> :
        a \in {"none", "critical", "high", "medium", "raises"}, b \in {"none", "high", "medium"},
        c \in {"none", "high", "medium"}, e \in {"none", "raises", "high"},
        f \in {"none", "high"}, g \in {"none", "medium"}}

DefenseOutcomes ==
    {<<RiskCall("_defense_customer_concentration_risk", a), RiskCall("_defense_recompete_risk", b),
       RiskCall("_defense_clearance_dependency_risk", c), RiskCall("_defense_ip_rights_risk", e),
       RiskCall("_defense_cr_shutdown_risk", f)>> :
        a \in {"none", "high", "medium"}, b \in {"none", "high", "medium"},
        c \in {"none", "medium"}, e \in {"none", "high", "medium"}, f \in {"none", "medium"}}

RisksInit ==
    \E general \in GeneralOutcomes, defense \in DefenseOutcomes \cup {<<>>} :
        /\ defense # <<>> =>
               \A k \in 3..6 : general[k].result \in {"none", "raises"}
        /\ calls = general \o defense
        /\ pc = "analyze_risks"
        /\ stack = <<[risks |-> <<>>]>>
        /\ heap = <<general \o defense>>
        /\ outs = <<>>
        /\ ppa = NoPpa
        /\ SchedIdle

\* risk = fn(): a RiskItem, appended
RiskFlagged ==
    /\ pc = "analyze_risks"
    /\ calls # <<>>
    /\ Head(calls).result \notin {"none", "raises"}
    /\ stack' = <<[risks |-> Append(stack[1].risks,
                                    [name |-> Head(calls).fn, severity |-> Head(calls).result])]>>
    /\ calls' = Tail(calls)
    /\ UNCHANGED <<pc, heap, outs, ppa, tranches, args, bds, sy, convergence_warning>>

\* risk = fn(): None
RiskNotFlagged ==
    /\ pc = "analyze_risks"
    /\ calls # <<>>
    /\ Head(calls).result = "none"
    /\ calls' = Tail(calls)
    /\ UNCHANGED <<pc, heap, stack, outs, ppa, tranches, args, bds, sy, convergence_warning>>

\* The exception of a check leaving analyze_risks
RiskFunctionRaisesUncaught ==
    /\ pc = "analyze_risks"
    /\ calls # <<>>
    /\ Head(calls).result = "raises"
    /\ calls' = <<>>
    /\ outs' = Append(outs, [raised |-> TRUE, output |-> <<>>])
    /\ stack' = <<>>
    /\ pc' = "done"
    /\ UNCHANGED <<heap, ppa, tranches, args, bds, sy, convergence_warning>>

\* except Exception: pass
RiskFunctionRaises ==
    /\ pc = "analyze_risks"
    /\ calls # <<>>
    /\ Head(calls).result = "raises"
    /\ calls' = Tail(calls)
    /\ UNCHANGED <<pc, heap, stack, outs, ppa, tranches, args, bds, sy, convergence_warning>>

\* risks.sort(...); return risks
RisksReturn ==
    /\ pc = "analyze_risks"
    /\ calls = <<>>
    /\ outs' = Append(outs, [raised |-> FALSE, output |-> SortRisks(stack[1].risks, 0)])
    /\ stack' = <<>>
    /\ pc' = "done"
    /\ UNCHANGED <<heap, calls, ppa, tranches, args, bds, sy, convergence_warning>>

RisksNext ==
    \/ RiskFlagged
    \/ RiskNotFlagged
    \/ RiskFunctionRaises
    \/ RisksReturn

SpecRisks == RisksInit /\ [][RisksNext]_vars

\* The pairs of severities of which the first comes before the second
SeverityBefore ==
    {<<"critical", "high">>, <<"critical", "medium">>, <<"critical", "low">>,
     <<"high", "medium">>, <<"high", "low">>, <<"medium", "low">>}

\* C17: in the list analyze_risks returns, every critical item precedes every
\* high item, every high item every medium item and every medium item every
\* low item.
C17_RisksSortedBySeverity ==
    \A o \in 1..Len(outs) :
        \A i, j \in 1..Len(outs[o].output) :
            <<outs[o].output[i].severity, outs[o].output[j].severity>> \in SeverityBefore
                => i < j

\* A list is returned whose items were flagged in another order: the leverage
\* check, which runs first, flagged a medium risk that is returned after a high one
C17_Witness ==
    /\ Len(outs) = 1
    /\ \E i, j \in 1..Len(outs[1].output) :
           /\ i < j
           /\ outs[1].output[i].severity = "high"
           /\ outs[1].output[j].name = "_leverage_risk"
           /\ outs[1].output[j].severity = "medium"

(***************************************************************************)
(* startup_engine.py: _compute_round_timing.  Cash and burn are in         *)
(* thousands of dollars, the runway in thousandths of a month and the      *)
(* stage timeline in months.  The milestone checklist, which the signal    *)
(* does not read, is left out of the result.                               *)
(***************************************************************************)
FUNDRAISE_PROCESS_MONTHS == 6

\* _STAGE_MONTHS_TO_NEXT.get(stage.value, 0.0)
_STAGE_MONTHS_TO_NEXT(stage) ==
    CASE stage = "pre_seed" -> 18
      [] stage = "seed" -> 24
      [] stage = "series_a" -> 0
      [] OTHER -> 0

\* _next_stage_for: the next stage, or "None" for the terminal one
_next_stage_for(stage) ==
    CASE stage = "pre_seed" -> "seed"
      [] stage = "seed" -> "series_a"
      [] stage = "series_a" -> "None"

\* Variant: the raise window opens when the next round is due
MonthsUntilWindowLate(months_to_next) == months_to_next

\* months_until_window = months_to_next - FUNDRAISE_PROCESS_MONTHS
MonthsUntilWindow(months_to_next) == months_to_next - FUNDRAISE_PROCESS_MONTHS

\* round(x / 100, 1) of a non-negative x in thousandths, in tenths, ties to even
RoundToTenths(x) ==
    LET q == x \div 100
        r == x % 100
    IN  IF r > 50 \/ (r = 50 /\ q % 2 = 1) THEN q + 1 ELSE q

\* _compute_round_timing(inp, vdata)
_compute_round_timing(inp) ==
    LET t == inp.traction
        stage == inp.fundraise.stage
        runway_months == IF t.monthly_burn_rate > 0
                         THEN (t.cash_on_hand * 1000) \div t.monthly_burn_rate
                         ELSE 999000
        months_to_next == _STAGE_MONTHS_TO_NEXT(stage)
        months_until_window == MonthsUntilWindow(months_to_next)
        signal == IF _next_stage_for(stage) = "None" THEN "focus_milestones"
                  ELSE IF runway_months < months_until_window * 1000 THEN "raise_now"
                  ELSE IF runway_months < (months_until_window + 12) * 1000 THEN "raise_in_months"
                  ELSE "focus_milestones"
        left == runway_months - months_until_window * 1000
    IN  [runway_months |-> IF runway_months < 999000 THEN RoundToTenths(runway_months) ELSE 0,
         months_to_next_round |-> months_to_next,
         fundraise_process_months |-> FUNDRAISE_PROCESS_MONTHS,
         months_until_raise_window |-> months_until_window,
         signal |-> signal,
         raise_in_months |-> IF signal = "raise_in_months"
                             THEN <<IF left > 1000 THEN left ELSE 1000>> ELSE <<>>,
         warnings |-> (IF t.monthly_burn_rate > 0 /\ runway_months < 6000
                       THEN <<"critical runway">> ELSE <<>>)
                      \o (IF t.monthly_burn_rate = 0 /\ t.cash_on_hand = 0
                          THEN <<"no burn or cash data">> ELSE <<>>)]

TimingInit ==
    \E stage \in {"pre_seed", "seed", "series_a"},
       cash_on_hand \in {0, 250, 599, 600, 900, 1199, 1200, 1500, 2400},
       monthly_burn_rate \in {0, 50, 80, 100} :
        /\ heap = <<[traction |-> [cash_on_hand |-> cash_on_hand,
                                   monthly_burn_rate |-> monthly_burn_rate],
                     fundraise |-> [stage |-> stage]]>>
        /\ pc = "round_timing"
        /\ stack = <<>>
        /\ calls = <<>>
        /\ outs = <<>>
        /\ ppa = NoPpa
        /\ SchedIdle

\* round_timing = _compute_round_timing(inp, vdata)
ComputeRoundTiming ==
    /\ pc = "round_timing"
    /\ outs' = <<[raised |-> FALSE, output |-> _compute_round_timing(heap[1])]>>
    /\ pc' = "done"
    /\ UNCHANGED <<heap, stack, calls, ppa, tranches, args, bds, sy, convergence_warning>>

TimingNext == ComputeRoundTiming

SpecTiming == TimingInit /\ [][TimingNext]_vars

\* runway < months, for runway = cash / burn, or 999 when burn = 0
RunwayBelow(t, months) ==
    IF t.monthly_burn_rate = 0 THEN 999 < months
    ELSE t.cash_on_hand < months * t.monthly_burn_rate

FallbackConfig == [frozen_on |-> {}, vertical_premiums |-> <<>>]

\* _load_config: a file with a frozen-on vertical, a premium of 25% and a
\* premium that is not a number
LoadedConfig ==
    [frozen_on |-> {"ai_ml_infrastructure"},
     vertical_premiums |-> <<[vertical |-> "b2b_saas", numeric |-> TRUE, premium |-> 250],
                             [vertical |-> "fintech", numeric |-> FALSE, premium |-> 0]>>]

\* AIModifierInput.__init__: ai_native_score ge=0.0, le=1.0; blended_valuation gt=0.0
AIModifierInputAccepts(kwargs) ==
    /\ kwargs.ai_native_score >= 0
    /\ kwargs.ai_native_score <= 1000
    /\ kwargs.blended_valuation > 0

\* AIModifierOutput(blended_after_ai=inp.blended_valuation, ai_modifier_applied=False,
\*                  ai_premium_multiplier=None, ai_premium_context=context)
PassThrough(inp, context) ==
    [blended_after_ai |-> inp.blended_valuation, ai_premium_multiplier |-> <<>>,
     ai_modifier_applied |-> FALSE, ai_premium_context |-> context]

\* apply_ai_modifier(inp), with config for _CONFIG
apply_ai_modifier(config, inp) ==
    LET score == IF inp.ai_native_score > 1000 THEN 1000
                 ELSE IF inp.ai_native_score < 0 THEN 0 ELSE inp.ai_native_score
        found == SelectSeq(config.vertical_premiums, LAMBDA e : e.vertical = inp.vertical)
    IN  IF inp.blended_valuation <= 0 THEN PassThrough(inp, "blended_valuation must be positive")
        ELSE IF ~inp.is_ai_native THEN PassThrough(inp, "None")
        ELSE IF score = 0 THEN PassThrough(inp, "None")
        ELSE IF inp.vertical \in config.frozen_on
        THEN PassThrough(inp, "Vertical is AI-native by definition")
        ELSE IF found = <<>> THEN PassThrough(inp, "Vertical not found in AI modifier config")
        ELSE IF ~found[1].numeric THEN PassThrough(inp, "AI modifier error")
        ELSE LET premium == (found[1].premium * score) \div 1000
             IN  [blended_after_ai |->
                      inp.blended_valuation + (inp.blended_valuation * premium) \div 1000,
                  ai_premium_multiplier |-> <<premium>>,
                  ai_modifier_applied |-> TRUE,
                  ai_premium_context |-> "AI-native premium"]

ModifierInit ==
    \E is_ai_native \in BOOLEAN, ai_native_score \in {-200, 0, 500, 1000, 1500},
       vertical \in {"ai_ml_infrastructure", "b2b_saas", "fintech", "unlisted"},
       blended_valuation \in {-3000, 0, 8000},
       config \in {FallbackConfig, LoadedConfig} :
        /\ heap = <<[is_ai_native |-> is_ai_native, ai_native_score |-> ai_native_score,
                     vertical |-> vertical, blended_valuation |-> blended_valuation],
                    config>>
        /\ pc = "construct_input"
        /\ stack = <<>>
        /\ calls = <<>>
        /\ outs = <<>>
        /\ ppa = NoPpa
        /\ SchedIdle

\* AIModifierInput(...) returns the input object
ConstructInput ==
    /\ pc = "construct_input"
    /\ AIModifierInputAccepts(heap[1])
    /\ stack' = <<[inp |-> heap[1]]>>
    /\ pc' = "apply_ai_modifier"
    /\ UNCHANGED <<heap, calls, outs, ppa, tranches, args, bds, sy, convergence_warning>>

\* AIModifierInput(...) raises ValidationError, outside the try of apply_ai_modifier
ConstructInputRaises ==
    /\ pc = "construct_input"
    /\ ~AIModifierInputAccepts(heap[1])
    /\ outs' = Append(outs, [raised |-> TRUE, output |-> <<>>])
    /\ pc' = "done"
    /\ UNCHANGED <<heap, stack, calls, ppa, tranches, args, bds, sy, convergence_warning>>

\* ai_mod_output = apply_ai_modifier(inp)
ApplyAiModifier ==
    /\ pc = "apply_ai_modifier"
    /\ outs' = Append(outs, [raised |-> FALSE, output |-> apply_ai_modifier(heap[2], stack[1].inp)])
    /\ stack' = <<>>
    /\ pc' = "done"
    /\ UNCHANGED <<heap, calls, ppa, tranches, args, bds, sy, convergence_warning>>

ModifierNext ==
    \/ ConstructInput
    \/ ConstructInputRaises
    \/ ApplyAiModifier

SpecModifier == ModifierInit /\ [][ModifierNext]_vars

\* C19: applying the modifier to any toggle, score, vertical and blended
\* valuation never raises; with a non-positive blended valuation, and whenever
\* the modifier is not applied, the result's blended_after_ai is the blended
\* valuation given and the modifier is marked not applied.
C19_ModifierNeverRaises ==
    \A o \in 1..Len(outs) :
        /\ ~outs[o].raised
        /\ heap[1].blended_valuation <= 0 => ~outs[o].output.ai_modifier_applied
        /\ ~outs[o].output.ai_modifier_applied =>
               outs[o].output.blended_after_ai = heap[1].blended_valuation

\* The modifier was applied to a blended valuation of 0 with the toggle on and
\* a score of 0.5, and the application has ended
C19_Witness ==
    /\ pc = "done"
    /\ outs # <<>>
    /\ heap[1].is_ai_native
    /\ heap[1].ai_native_score = 500
    /\ heap[1].blended_valuation = 0

\* Every object the constructor returns gets a result from apply_ai_modifier,
\* a pass-through unless the premium is applied
ModifierTotalOnValidInputs ==
    \A o \in 1..Len(outs) :
        AIModifierInputAccepts(heap[1]) =>
            /\ ~outs[o].raised
            /\ ~outs[o].output.ai_modifier_applied =>
                   outs[o].output.blended_after_ai = heap[1].blended_valuation

\* The checks of the deal analysed that return a RiskItem, as (name, severity)
FlagsOfDeal ==
    {<<heap[1][k].fn, heap[1][k].result>> :
        k \in {i \in 1..Len(heap[1]) : heap[1][i].result \notin {"none", "raises"}}}

\* C23: when a risk check raises, analyze_risks still returns, without raising,
\* the flag of every other check that has one: only the raising check's item
\* is missing.
C23_RaisingAnalyzerOnlyOmitted ==
    /\ pc = "done" => Len(outs) = 1
    /\ \A o \in 1..Len(outs) :
           /\ ~outs[o].raised
           /\ {<<outs[o].output[j].name, outs[o].output[j].severity>> :
                   j \in 1..Len(outs[o].output)} = FlagsOfDeal
           /\ Len(outs[o].output) = Cardinality(FlagsOfDeal)

\* analyze_risks returned for a deal whose first check raised and of which a
\* later check has a flag
C23_Witness ==
    /\ outs # <<>>
    /\ heap[1][1].result = "raises"
    /\ \E k \in 2..Len(heap[1]) :
           /\ heap[1][k].result \notin {"none", "raises"}
           /\ \E j \in 1..Len(outs[1].output) : outs[1].output[j].name = heap[1][k].fn

\* The structure of the deal that frame i of the stack runs on
FrameStructure(i) == StructureOf(heap, stack[i].deal)

\* C28: every perturbed deal a sensitivity cell passes to the projector has
\* cash, stock and debt fractions each in [0, 1] that sum to 1.0 within 0.001.
C28_PerturbedStructureValid ==
    \A i \in 2..Len(stack) :
        /\ FrameStructure(i).cash_percentage \in 0..1000
        /\ FrameStructure(i).stock_percentage \in 0..1000
        /\ FrameStructure(i).debt_percentage \in 0..1000
        /\ SumWithinTolerance(FrameStructure(i))

\* A cell of the Interest Rate vs Leverage matrix has passed its deal to the
\* projector, for a base deal with explicit tranches
C28_Witness ==
    /\ Len(stack) = 2
    /\ stack[1].gen.matrix = 3
    /\ StructureOf(heap, stack[1].deal).debt_tranches # <<>>
    /\ StructureOf(heap, stack[2].deal).debt_tranches # <<>>

\* The fractions of every perturbed deal sum to 1.0, and those of the first two
\* matrices are each in [0, 1]
PerturbedStructureSums ==
    \A i \in 2..Len(stack) :
        /\ SumWithinTolerance(FrameStructure(i))
        /\ stack[i - 1].gen.matrix \in {1, 2} =>
               /\ FrameStructure(i).cash_percentage \in 0..1000
               /\ FrameStructure(i).stock_percentage \in 0..1000
               /\ FrameStructure(i).debt_percentage \in 0..1000

\* The debt the deal of frame i carries into its schedule: the sum of its
\* tranche amounts (run_deal builds a synthetic tranche only when there is none)
AcquisitionDebtOf(i) == SumField(DebtTranches(heap, stack[i].deal), "amount")

\* L x combined EBITDA for the cell frame i is computing, capped at 95% of price
LeverageDebtOf(i) ==
    LET g == stack[i].gen
        implied == g.combined_ebitda * LeverageCols[g.col]
    IN  IF implied * 1000 > 950 * g.base_price THEN (g.base_price * 950) \div 1000 ELSE implied

\* C29: the deal an Interest Rate vs Leverage cell evaluates for L turns
\* carries, as the total acquisition debt of its schedule, L x combined EBITDA
\* capped at 95% of the price (to a thousandth of the price), with or without
\* explicit tranches in the base deal.
C29_LeverageCellDebt ==
    \A i \in 2..Len(stack) :
        stack[i - 1].gen.matrix = 3 =>
            /\ AcquisitionDebtOf(i) - LeverageDebtOf(i - 1) <= stack[i - 1].gen.base_price \div 1000
            /\ LeverageDebtOf(i - 1) - AcquisitionDebtOf(i) <= stack[i - 1].gen.base_price \div 1000

\* The cell for 3.0 turns is being evaluated for a base deal with an explicit
\* tranche and a positive combined EBITDA
C29_Witness ==
    /\ Len(stack) = 2
    /\ stack[1].gen.matrix = 3
    /\ stack[1].gen.combined_ebitda > 0
    /\ LeverageCols[stack[1].gen.col] = 3
    /\ StructureOf(heap, stack[1].deal).debt_tranches # <<>>

\* Without explicit tranches in the base deal the cell's deal carries the
\* implied debt
LeverageCellDebtWithoutTranches ==
    \A i \in 2..Len(stack) :
        (stack[i - 1].gen.matrix = 3
            /\ StructureOf(heap, stack[i - 1].deal).debt_tranches = <<>>) =>
            /\ AcquisitionDebtOf(i) - LeverageDebtOf(i - 1) <= stack[i - 1].gen.base_price \div 1000
            /\ LeverageDebtOf(i - 1) - AcquisitionDebtOf(i) <= stack[i - 1].gen.base_price \div 1000

(***************************************************************************)
(* compute_returns on its own, over projections of three to seven years.   *)
(* The frame holds the lists run_deal passes; entry_multiple is in         *)
(* hundredths.                                                             *)
(***************************************************************************)
ReturnsInit ==
    \E acquisition_price \in {2000, 6000}, target_ebitda \in {-200, 800},
       structure \in {Structure(400, 200, 400), Structure(1000, 0, 0)},
       n \in {3, 4, 5, 7}, ebitda \in {-100, 500, 2800}, ending_debt \in {0, 2400},
       fcf \in {-50, 300} :
        /\ heap = NewDeal(Acquirer(2000, 1000, 250),
                          Target(target_ebitda, 200, 100, 50, acquisition_price),
                          structure, <<>>, <<>>, <<>>, PpaAssumptions(300, 600), n)
        /\ stack = <<[ebitda_by_year |-> [y \in 1..n |-> ebitda],
                      ending_debt_by_year |-> [y \in 1..n |-> ending_debt],
                      fcf_by_year |-> [y \in 1..n |-> fcf]]>>
        /\ pc = "compute_returns"
        /\ calls = <<>>
        /\ outs = <<>>
        /\ ppa = NoPpa
        /\ SchedIdle

\* returns = compute_returns(deal, ebitda_by_year, net_income_by_year,
\*                           ending_debt_by_year, fcf_by_year=fcf_by_year)
ComputeReturns ==
    /\ pc = "compute_returns"
    /\ \E r \in {compute_returns(heap, 1, stack[1].ebitda_by_year,
                                   stack[1].ending_debt_by_year, stack[1].fcf_by_year)} :
           outs' = Append(outs, [raised |-> r.raised,
                                 output |-> IF r.raised THEN <<>> ELSE r])
    /\ pc' = "done"
    /\ UNCHANGED <<heap, stack, calls, ppa, tranches, args, bds, sy, convergence_warning>>

ReturnsNext == ComputeReturns

SpecReturns == ReturnsInit /\ [][ReturnsNext]_vars

\* The steps around the entry multiple, and entry + d to one decimal, in
\* hundredths and tenths
ExitSteps == {-200, -150, -100, -50, 0, 50, 100, 150, 200}
ToOneDecimal(x) == (x + 5) \div 10

\* C21: a returned grid has, for each exit year of 3, 5 and 7 within the
\* projection and each entry_multiple + d, d in -2 .. +2 by 0.5, that is
\* positive, exactly one scenario, and no scenario of another year or multiple.
C21_GridOfPositiveMultiples ==
    \A o \in 1..Len(outs) :
        ~outs[o].raised =>
            LET g == outs[o].output.scenarios
                entry == outs[o].output.entry_multiple
                n == heap[1].projection_years
            IN  /\ \A y \in {3, 5, 7}, d \in ExitSteps :
                       (y <= n /\ entry + d > 0) =>
                           Cardinality({k \in 1..Len(g) :
                                           /\ g[k].exit_year = y
                                           /\ g[k].exit_multiple = ToOneDecimal(entry + d)}) = 1
                /\ \A k \in 1..Len(g) :
                       /\ g[k].exit_year \in {3, 5, 7}
                       /\ g[k].exit_year <= n
                       /\ \E d \in ExitSteps :
                              entry + d > 0 /\ g[k].exit_multiple = ToOneDecimal(entry + d)

\* A grid was returned for a five-year projection of a deal priced at 2.5x,
\* with scenarios for the exit years 3 and 5
C21_Witness ==
    /\ outs # <<>>
    /\ ~outs[1].raised
    /\ outs[1].output.entry_multiple = 250
    /\ heap[1].projection_years = 5
    /\ {outs[1].output.scenarios[k].exit_year : k \in 1..Len(outs[1].output.scenarios)} = {3, 5}

\* What the grid holds: the multiples above 1.0x, once per exit year
GridOfMultiplesAboveOne ==
    \A o \in 1..Len(outs) :
        ~outs[o].raised =>
            LET g == outs[o].output.scenarios
                entry == outs[o].output.entry_multiple
                n == heap[1].projection_years
            IN  /\ \A y \in {3, 5, 7}, d \in ExitSteps :
                       Cardinality({k \in 1..Len(g) :
                                       /\ g[k].exit_year = y
                                       /\ g[k].exit_multiple = ToOneDecimal(entry + d)})
                           = IF y <= n /\ entry + d > 100 THEN 1 ELSE 0
                /\ Len(g) = Cardinality({y \in {3, 5, 7} : y <= n})
                                * Cardinality({d \in ExitSteps : entry + d > 100})

(***************************************************************************)
(* _leverage_risk on its own, over deals whose post-close debt lies below, *)
(* on and above each threshold                                             *)
(***************************************************************************)
LeverageInit ==
    \E acquirer_ebitda \in {800, 1000}, target_ebitda \in {-1000, 0, 200},
       total_debt \in {0, 1000, 2000, 3000, 3999},
       acquisition_price \in {2000, 4000, 5000}, debt_percentage \in {0, 500, 1000} :
        /\ heap = NewDeal([Acquirer(acquirer_ebitda, 1000, 250) EXCEPT !.total_debt = total_debt],
                          Target(target_ebitda, 200, 100, 50, acquisition_price),
                          Structure(1000 - debt_percentage, 0, debt_percentage),
                          <<>>, <<>>, <<>>, PpaAssumptions(300, 600), 3)
        /\ pc = "_leverage_risk"
        /\ stack = <<>>
        /\ calls = <<>>
        /\ outs = <<>>
        /\ ppa = NoPpa
        /\ SchedIdle

\* risk = fn(deal, output) for fn = _leverage_risk
LeverageRisk ==
    /\ pc = "_leverage_risk"
    /\ outs' = Append(outs, [raised |-> FALSE, output |-> _leverage_risk(heap, 1)])
    /\ pc' = "done"
    /\ UNCHANGED <<heap, stack, calls, ppa, tranches, args, bds, sy, convergence_warning>>

LeverageNext == LeverageRisk

SpecLeverage == LeverageInit /\ [][LeverageNext]_vars

\* Acquisition debt plus existing debt, and combined EBITDA, of the deal checked
PostCloseDebt ==
    (TargetOf(heap, 1).acquisition_price * StructureOf(heap, 1).debt_percentage) \div 1000
        + heap[1].acquirer.total_debt
CombinedEbitda == heap[1].acquirer.ebitda + TargetOf(heap, 1).ebitda

\* The severity of the flag raised, "none" when no flag was raised
FlagOf(o) == IF outs[o].output = <<>> THEN "none" ELSE outs[o].output[1].severity

\* C22: with leverage = (acquisition debt + existing debt) / combined EBITDA,
\* the leverage check raises no flag below 4x, a medium flag from 4x, a high
\* flag from 5x and a critical flag from 6x.
C22_LeverageThresholds ==
    \A o \in 1..Len(outs) :
        CombinedEbitda > 0 =>
            FlagOf(o) = IF PostCloseDebt >= 6 * CombinedEbitda THEN "critical"
                        ELSE IF PostCloseDebt >= 5 * CombinedEbitda THEN "high"
                        ELSE IF PostCloseDebt >= 4 * CombinedEbitda THEN "medium"
                        ELSE "none"

\* The check was applied to a deal levered at exactly 5.0x
C22_Witness ==
    /\ outs # <<>>
    /\ CombinedEbitda > 0
    /\ PostCloseDebt = 5 * CombinedEbitda

\* What the check does: high only above 5x, and no flag at all when combined
\* EBITDA is not positive
LeverageThresholdsAsCoded ==
    \A o \in 1..Len(outs) :
        FlagOf(o) = IF CombinedEbitda <= 0 THEN "none"
                    ELSE IF PostCloseDebt >= 6 * CombinedEbitda THEN "critical"
                    ELSE IF PostCloseDebt > 5 * CombinedEbitda THEN "high"
                    ELSE IF PostCloseDebt >= 4 * CombinedEbitda THEN "medium"
                    ELSE "none"

(***************************************************************************)
(* vc_return_engine.py: compute_waterfall.  Amounts are in thousands of    *)
(* dollars, preference multiples and participation caps in tenths,         *)
(* common_shares_pct in thousandths.                                       *)
(***************************************************************************)
LiquidationPreference(share_class, invested_amount, preference_multiple, preference_type,
                      participation_cap, seniority) ==
    [share_class |-> share_class, invested_amount |-> invested_amount,
     preference_multiple |-> preference_multiple, preference_type |-> preference_type,
     participation_cap |-> participation_cap, seniority |-> seniority]

\* sorted(deal.liquidation_stack, key=lambda x: x.seniority), a stable sort
RECURSIVE SortBySeniority(_)
SortBySeniority(prefs) ==
    IF prefs = <<>> THEN <<>>
    ELSE LET first == CHOOSE i \in 1..Len(prefs) :
                          \A j \in 1..Len(prefs) :
                              \/ prefs[i].seniority < prefs[j].seniority
                              \/ prefs[i].seniority = prefs[j].seniority /\ i <= j
         IN  <<prefs[first]>> \o
             SortBySeniority([k \in 1..(Len(prefs) - 1) |->
                                 IF k < first THEN prefs[k] ELSE prefs[k + 1]])

\* Step 1: the liquidation preferences paid in seniority order out of remaining
RECURSIVE PayPreferences(_, _)
PayPreferences(stack_, remaining) ==
    IF stack_ = <<>> THEN <<>>
    ELSE LET pref_amount == (Head(stack_).invested_amount * Head(stack_).preference_multiple) \div 10
             paid == IF remaining < pref_amount THEN remaining ELSE pref_amount
         IN  <<paid>> \o PayPreferences(Tail(stack_), remaining - paid)

\* Step 2 for one class: what it gets and whether it converted
ClassGets(pref, liquidation_payout, total_preferred_invested, common_fraction, exit_ev, remaining) ==
    LET Share(x) == (((x * pref.invested_amount) \div total_preferred_invested)
                        * (1000 - common_fraction)) \div 1000
        conversion_value == Share(exit_ev)
        participation == Share(remaining)
        cap == IF pref.participation_cap = <<>> \/ pref.participation_cap = <<0>> THEN 30
               ELSE pref.participation_cap[1]
        cap_value == (pref.invested_amount * cap) \div 10
    IN  IF pref.preference_type = "non_participating"
        THEN [gets |-> IF conversion_value > liquidation_payout THEN conversion_value
                       ELSE liquidation_payout,
              converted |-> conversion_value > liquidation_payout]
        ELSE IF pref.preference_type = "participating"
        THEN [gets |-> liquidation_payout + participation, converted |-> FALSE]
        ELSE [gets |-> IF liquidation_payout + participation < cap_value
                       THEN liquidation_payout + participation ELSE cap_value,
              converted |-> FALSE]

compute_waterfall(deal, exit_ev) ==
    LET stack_ == SortBySeniority(deal.liquidation_stack)
        paid == PayPreferences(stack_, exit_ev)
        remaining == exit_ev - SumField([k \in 1..Len(paid) |-> [paid |-> paid[k]]], "paid")
        total_preferred_invested == SumField(stack_, "invested_amount")
        distributions ==
            [k \in 1..Len(stack_) |->
                LET g == ClassGets(stack_[k], paid[k], total_preferred_invested,
                                   deal.common_shares_pct, exit_ev, remaining)
                IN  [share_class |-> stack_[k].share_class,
                     liquidation_payout |-> paid[k],
                     gets |-> g.gets,
                     converted |-> g.converted]]
        total_preferred_gets == SumField(distributions, "gets")
    IN  [exit_ev |-> exit_ev,
         share_classes |-> distributions,
         common_gets |-> IF exit_ev - total_preferred_gets > 0
                         THEN exit_ev - total_preferred_gets ELSE 0,
         total_distributed |-> exit_ev,
         investor_total |-> IF distributions # <<>> THEN distributions[1].gets ELSE 0,
         conversion_was_optimal |-> IF distributions # <<>> THEN distributions[1].converted
                                    ELSE FALSE]

\* The share classes the liquidation stacks are made of
ShareClasses ==
    {LiquidationPreference("Series A", 1500, 10, "non_participating", <<>>, 1),
     LiquidationPreference("Series B", 1500, 10, "non_participating", <<>>, 2),
     LiquidationPreference("Series C", 4500, 20, "non_participating", <<>>, 1),
     LiquidationPreference("Series D", 1500, 10, "participating", <<>>, 1),
     LiquidationPreference("Series E", 4500, 20, "participating", <<>>, 2),
     LiquidationPreference("Series F", 1500, 10, "participating_capped", <<15>>, 1),
     LiquidationPreference("Series G", 1500, 10, "participating_capped", <<>>, 2)}

WaterfallInit ==
    \E liquidation_stack \in {<<>>} \cup {<<a>> : a \in ShareClasses}
                                  \cup {<<a, b>> : a \in ShareClasses, b \in ShareClasses},
       common_shares_pct \in {0, 200, 1000},
       exit_ev \in {0, 2400, 3000, 18000} :
        /\ heap = <<[liquidation_stack |-> liquidation_stack,
                     common_shares_pct |-> common_shares_pct]>>
        /\ stack = <<[exit_ev |-> exit_ev]>>
        /\ pc = "compute_waterfall"
        /\ calls = <<>>
        /\ outs = <<>>
        /\ ppa = NoPpa
        /\ SchedIdle

\* result = compute_waterfall(deal, request.exit_ev)
ComputeWaterfall ==
    /\ pc = "compute_waterfall"
    /\ outs' = Append(outs, [raised |-> FALSE,
                             output |-> compute_waterfall(heap[1], stack[1].exit_ev)])
    /\ pc' = "done"
    /\ UNCHANGED <<heap, stack, calls, ppa, tranches, args, bds, sy, convergence_warning>>

WaterfallNext == ComputeWaterfall

SpecWaterfall == WaterfallInit /\ [][WaterfallNext]_vars

\* C24: for every exit EV >= 0 and every liquidation stack, what the preferred
\* classes get plus what common gets equals the exit EV reported as
\* total_distributed, so the preferred classes together get no more than the
\* exit EV.
C24_WaterfallConservesProceeds ==
    \A o \in 1..Len(outs) :
        LET w == outs[o].output
        IN  /\ w.total_distributed = w.exit_ev
            /\ SumField(w.share_classes, "gets") + w.common_gets = w.total_distributed
            /\ SumField(w.share_classes, "gets") <= w.exit_ev

\* The waterfall was computed for a stack of two classes and a positive exit EV
\* that does not cover both preferences
C24_Witness ==
    /\ outs # <<>>
    /\ Len(outs[1].output.share_classes) = 2
    /\ outs[1].output.exit_ev > 0
    /\ \E k \in 1..2 :
           outs[1].output.share_classes[k].liquidation_payout
               < (SortBySeniority(heap[1].liquidation_stack)[k].invested_amount
                    * SortBySeniority(heap[1].liquidation_stack)[k].preference_multiple) \div 10

\* With no preferred class, or one participating class alone, the proceeds
\* are conserved
WaterfallConservesForOneParticipatingClass ==
    \A o \in 1..Len(outs) :
        (\/ heap[1].liquidation_stack = <<>>
         \/ /\ Len(heap[1].liquidation_stack) = 1
            /\ heap[1].liquidation_stack[1].preference_type = "participating") =>
            SumField(outs[o].output.share_classes, "gets") + outs[o].output.common_gets
                = outs[o].output.total_distributed

(***************************************************************************)
(* compute_ppa on its own, over validated deals                            *)
(***************************************************************************)
PpaInit ==
    \E tax_rate \in {0, 250}, total_debt \in {0, 100}, cash_on_hand \in {0, 50},
       working_capital \in {-30, 0, 40}, acquisition_price \in {50, 200},
       asset_writeup \in {0, 30}, identifiable_intangibles \in {0, 60} :
        /\ heap = NewDeal(Acquirer(2000, 1000, tax_rate),
                          Target(800, total_debt, cash_on_hand, working_capital, acquisition_price),
                          Structure(1000, 0, 0), <<>>, <<>>, <<>>,
                          PpaAssumptions(asset_writeup, identifiable_intangibles), 3)
        /\ pc = "ppa"
        /\ ppa = NoPpa
        /\ stack = <<>> /\ calls = <<>> /\ outs = <<>>
        /\ SchedIdle

ComputePpa ==
    /\ pc = "ppa"
    /\ ppa' = compute_ppa(heap, 1)
    /\ pc' = "done"
    /\ UNCHANGED <<tranches, args, bds, sy, convergence_warning, heap, stack, calls, outs>>

SpecPpa == PpaInit /\ [][ComputePpa]_vars

\* C10: for every validated deal, the goodwill that compute_ppa returns is at
\* least 0 and at most the acquisition price.
C10_GoodwillWithinPrice ==
    pc = "done" =>
        /\ 0 <= ppa.goodwill
        /\ ppa.goodwill <= TargetOf(heap, 1).acquisition_price

\* compute_ppa has returned for a target whose debt exceeds its cash and
\* working capital, and the goodwill is above the price paid
C10_Witness ==
    /\ pc = "done"
    /\ TargetOf(heap, 1).total_debt > TargetOf(heap, 1).cash_on_hand + TargetOf(heap, 1).working_capital
    /\ ppa.goodwill > TargetOf(heap, 1).acquisition_price

====
